---------------------------- MODULE Spec2Model ----------------------------
(***************************************************************************)
(* Model of the ceph.automation Ansible collection's ceph_crush_rule       *)
(* module (plugins/modules/ceph_crush_rule.py): the rule inspector         *)
(* need_changes, the CRUSH map text editor patch_content and the run of    *)
(* main() against a cluster.  Strings are TLA+ strings, handled character  *)
(* by character with Len, SubSeq and \o, so that Python's str.replace,     *)
(* str.splitlines, str.join and the two regular expressions are computed   *)
(* as the code computes them.                                              *)
(***************************************************************************)
EXTENDS Naturals, Sequences, FiniteSets

\* Python's None for an optional module parameter or an unmatched regex group.
\* No CRUSH token and no parameter of the model is this string.
None == "<None>"

\* Python truthiness of an optional string: None and '' are falsy.
Truthy(x) == x # None /\ x # ""

(***************************************************************************)
(* String primitives                                                       *)
(***************************************************************************)

\* Characters matched by \s in a Python regex (those a TLA+ string can hold).
IsSpace(c) == c \in {" ", "\t", "\n", "\r", "\f"}

\* Characters str.splitlines treats as a line boundary.
IsLineBreak(c) == c \in {"\n", "\r", "\f"}

\* str.startswith
StartsWith(s, p) == Len(s) >= Len(p) /\ SubSeq(s, 1, Len(p)) = p

\* s without its first n characters
Drop(s, n) == SubSeq(s, n + 1, Len(s))

\* str.find from a 1-based position: the lowest index of sub in s, 0 if none.
RECURSIVE Find(_, _, _)
Find(s, sub, from) ==
    IF from + Len(sub) - 1 > Len(s) THEN 0
    ELSE IF SubSeq(s, from, from + Len(sub) - 1) = sub THEN from
    ELSE Find(s, sub, from + 1)

\* str.replace(old, new): every non-overlapping occurrence, left to right.
\* For old = '' Python puts new before every character and at the end.
RECURSIVE Replace(_, _, _)
Replace(s, old, new) ==
    IF old = ""
    THEN IF s = "" THEN new ELSE new \o Head(s) \o Replace(Tail(s), old, new)
    ELSE LET i == Find(s, old, 1)
         IN  IF i = 0 THEN s
             ELSE SubSeq(s, 1, i - 1) \o new
                    \o Replace(Drop(s, i + Len(old) - 1), old, new)

\* Length of the longest prefix of s made of whitespace (\s*).
RECURSIVE LeadingSpaces(_)
LeadingSpaces(s) ==
    IF s # "" /\ IsSpace(Head(s)) THEN 1 + LeadingSpaces(Tail(s)) ELSE 0

\* Length of the longest prefix of s made of non-whitespace (\S+, greedy).
RECURSIVE LeadingNonSpaces(_)
LeadingNonSpaces(s) ==
    IF s # "" /\ ~IsSpace(Head(s)) THEN 1 + LeadingNonSpaces(Tail(s)) ELSE 0

\* Length of the longest prefix of s holding no line boundary.
RECURSIVE LeadingNonBreaks(_)
LeadingNonBreaks(s) ==
    IF s # "" /\ ~IsLineBreak(Head(s)) THEN 1 + LeadingNonBreaks(Tail(s)) ELSE 0

\* str.splitlines(): the lines without their terminators; "\r\n" is one
\* terminator; a terminator at the very end opens no further (empty) line.
RECURSIVE SplitLinesFrom(_, _, _)
SplitLinesFrom(s, cur, acc) ==
    IF s = "" THEN (IF cur = "" THEN acc ELSE Append(acc, cur))
    ELSE IF StartsWith(s, "\r\n") THEN SplitLinesFrom(Drop(s, 2), "", Append(acc, cur))
    ELSE IF IsLineBreak(Head(s)) THEN SplitLinesFrom(Tail(s), "", Append(acc, cur))
    ELSE LET n == LeadingNonBreaks(s)
         IN  SplitLinesFrom(Drop(s, n), cur \o SubSeq(s, 1, n), acc)

splitlines(s) == SplitLinesFrom(s, "", <<>>)

\* sep.join(lines)
RECURSIVE join(_, _)
join(sep, lines) ==
    IF lines = <<>> THEN ""
    ELSE IF Len(lines) = 1 THEN lines[1]
    ELSE lines[1] \o sep \o join(sep, Tail(lines))


(***************************************************************************)
(* patch_content: the CRUSH map text editor                                *)
(***************************************************************************)

NoMatch == [matched |-> FALSE, g1 |-> None, g2 |-> None, g3 |-> None]

\* re.compile(r'^\s*step take (\S+)( class (\S+))?$').match(line)
\* \S+ is greedy and what follows it starts with a space or is the end of the
\* line, so group 1 is the whole run of non-whitespace after 'step take '.
reg_bucket_root(line) ==
    LET rest  == Drop(line, LeadingSpaces(line))
        after == Drop(rest, Len("step take "))
        n     == LeadingNonSpaces(after)
        tail  == Drop(after, n)
        cls   == Drop(tail, Len(" class "))
    IN  IF ~StartsWith(rest, "step take ") \/ n = 0 THEN NoMatch
        ELSE IF tail = ""
        THEN [matched |-> TRUE, g1 |-> SubSeq(after, 1, n), g2 |-> None, g3 |-> None]
        ELSE IF StartsWith(tail, " class ") /\ cls # ""
                /\ LeadingNonSpaces(cls) = Len(cls)
        THEN [matched |-> TRUE, g1 |-> SubSeq(after, 1, n), g2 |-> tail, g3 |-> cls]
        ELSE NoMatch

\* reg_failure_domain with a slip: the pattern is
\* r'^\s*step chooseleaf firstn \d type (\S+)$', which also matches a line
\* with a replica count other than 0.
reg_failure_domainAnyCount(line) ==
    LET rest == Drop(line, LeadingSpaces(line))
        cnt  == Drop(rest, Len("step chooseleaf firstn "))
        dom  == Drop(cnt, Len("0 type "))
    IN  IF StartsWith(rest, "step chooseleaf firstn ") /\ cnt # ""
           /\ SubSeq(cnt, 1, 1) \in {"0", "1", "2", "3", "4", "5", "6", "7", "8", "9"}
           /\ StartsWith(Drop(cnt, 1), " type ") /\ dom # ""
           /\ LeadingNonSpaces(dom) = Len(dom)
        THEN [matched |-> TRUE, g1 |-> dom, g2 |-> None, g3 |-> None]
        ELSE NoMatch

\* re.compile(r'^\s*step chooseleaf firstn 0 type (\S+)$').match(line)
reg_failure_domain(line) ==
    LET rest == Drop(line, LeadingSpaces(line))
        dom  == Drop(rest, Len("step chooseleaf firstn 0 type "))
    IN  IF StartsWith(rest, "step chooseleaf firstn 0 type ") /\ dom # ""
           /\ LeadingNonSpaces(dom) = Len(dom)
        THEN [matched |-> TRUE, g1 |-> dom, g2 |-> None, g3 |-> None]
        ELSE NoMatch

\* The rewrite of a 'step take' line (lines 291-301): the root by str.replace
\* on the whole line, then the class added, removed or changed.
PatchTakeLine(line, m, bucket_root, device_class) ==
    LET replaced == Replace(line, m.g1, bucket_root)
    IN  IF Truthy(device_class) /\ m.g3 = None
        THEN replaced \o " class " \o device_class
        ELSE IF device_class = None /\ Truthy(m.g3)
        THEN Replace(replaced, m.g2, "")
        ELSE IF Truthy(device_class) /\ Truthy(m.g3)
        THEN Replace(replaced, m.g3, device_class)
        ELSE replaced

\* The rewrite of a 'step chooseleaf firstn 0 type' line (lines 307-308).
PatchDomainLine(line, m, failure_domain) == Replace(line, m.g1, failure_domain)

\* The body of the loop for a line inside the rule block (lines 287-309).
PatchLine(line, params) ==
    LET root_match   == reg_bucket_root(line)
        domain_match == reg_failure_domain(line)
    IN  IF root_match.matched
        THEN PatchTakeLine(line, root_match, params.bucket_root, params.device_class)
        ELSE IF domain_match.matched
        THEN PatchDomainLine(line, domain_match, params.bucket_type)
        ELSE line

\* line.startswith('rule {}'.format(rule_name)) (line 281)
IsRuleStart(line, rule_name) == StartsWith(line, "rule " \o rule_name)

\* for i in range(len(crushmap)) (lines 278-309), from index i on.
RECURSIVE PatchLoop(_, _, _, _)
PatchLoop(crushmap, i, inside_rule_block, params) ==
    IF i > Len(crushmap) THEN crushmap
    ELSE IF IsRuleStart(crushmap[i], params.name)
    THEN PatchLoop(crushmap, i + 1, TRUE, params)
    ELSE IF inside_rule_block /\ StartsWith(crushmap[i], "}")
    THEN crushmap
    ELSE IF inside_rule_block
    THEN PatchLoop([crushmap EXCEPT ![i] = PatchLine(crushmap[i], params)],
                   i + 1, inside_rule_block, params)
    ELSE PatchLoop(crushmap, i + 1, inside_rule_block, params)

patch_content(params, crushmap_content) ==
    join("\n", PatchLoop(splitlines(crushmap_content), 1, FALSE, params))


(***************************************************************************)
(* need_changes: the rule inspector                                        *)
(***************************************************************************)

\* str.split(sep) for a non-empty separator
RECURSIVE split(_, _)
split(s, sep) ==
    LET i == Find(s, sep, 1)
    IN  IF i = 0 THEN <<s>>
        ELSE <<SubSeq(s, 1, i - 1)>> \o split(Drop(s, i + Len(sep) - 1), sep)

\* A step of the dumped rule; a field the step's JSON does not have is None.
Step(op, item_name, type) == [op |-> op, item_name |-> item_name, type |-> type]

\* StepDiffers with a slip: a take step without class suffix is given the
\* class '' instead of None.
StepDiffersEmptyClass(step, params) ==
    IF step.op = "take"
    THEN LET exist_bucket_root == split(step.item_name, "~")
             exist_root  == exist_bucket_root[1]
             exist_class == IF Len(exist_bucket_root) > 1
                            THEN exist_bucket_root[2] ELSE ""
         IN  exist_root # params.bucket_root \/ exist_class # params.device_class
    ELSE IF step.op = "chooseleaf_firstn"
    THEN step.type # params.bucket_type
    ELSE FALSE

\* The test of one step in the loop (lines 208-217): TRUE when the loop
\* returns True at this step.
StepDiffers(step, params) ==
    IF step.op = "take"
    THEN LET exist_bucket_root == split(step.item_name, "~")
             exist_root  == exist_bucket_root[1]
             exist_class == IF Len(exist_bucket_root) > 1
                            THEN exist_bucket_root[2] ELSE None
         IN  exist_root # params.bucket_root \/ exist_class # params.device_class
    ELSE IF step.op = "chooseleaf_firstn"
    THEN step.type # params.bucket_type
    ELSE FALSE

\* NeedLoop with a slip: 'return False' inside the loop, so that only the
\* first step is looked at.
NeedLoopFirstOnly(steps, i, params) ==
    i <= Len(steps) /\ StepDiffers(steps[i], params)

\* for step in rule['steps'] (lines 207-219), from index i on.
RECURSIVE NeedLoop(_, _, _)
NeedLoop(steps, i, params) ==
    IF i > Len(steps) THEN FALSE
    ELSE IF StepDiffers(steps[i], params) THEN TRUE
    ELSE NeedLoop(steps, i + 1, params)

need_changes(params, rule) == NeedLoop(rule.steps, 1, params)


(***************************************************************************)
(* The cluster: the installed CRUSH map and the external tools.  The       *)
(* installed (binary) map is kept as the sequence of its text lines;       *)
(* crushtool -d writes them out newline-terminated, crushtool -c reads a   *)
(* text back into lines.                                                   *)
(***************************************************************************)

\* line.split(): the whitespace-separated words of a line
RECURSIVE Words(_)
Words(s) ==
    LET t == Drop(s, LeadingSpaces(s))
        n == LeadingNonSpaces(t)
    IN  IF t = "" THEN <<>> ELSE <<SubSeq(t, 1, n)>> \o Words(Drop(t, n))

\* The lines of one rule block as crushtool -d prints it.
RuleBlock(name, type, steps) ==
    <<"rule " \o name \o " {", "\tid 1", "\ttype " \o type>> \o steps \o <<"}">>

\* Index of the line that opens the block of the rule called name, 0 if none.
RuleIndex(map, name) ==
    LET S == {i \in 1..Len(map) : Words(map[i]) = <<"rule", name, "{">>}
    IN  IF S = {} THEN 0 ELSE CHOOSE i \in S : \A j \in S : i <= j

\* Index of the line that closes the block opened at line i.
BlockEnd(map, i) ==
    CHOOSE j \in (i + 1)..Len(map) :
        /\ StartsWith(map[j], "}")
        /\ \A k \in (i + 1)..(j - 1) : ~StartsWith(map[k], "}")

\* The JSON step 'ceph osd crush rule dump' shows for one step line.
StepJson(w) ==
    IF Len(w) = 3 /\ w[2] = "take" THEN Step("take", w[3], None)
    ELSE IF Len(w) = 5 /\ w[2] = "take" THEN Step("take", w[3] \o "~" \o w[5], None)
    ELSE IF Len(w) = 6 THEN Step(w[2] \o "_" \o w[3], None, w[6])
    ELSE Step(w[2], None, None)

RECURSIVE StepsJson(_)
StepsJson(lines) ==
    IF lines = <<>> THEN <<>>
    ELSE LET w == Words(Head(lines))
         IN  (IF w # <<>> /\ w[1] = "step" THEN <<StepJson(w)>> ELSE <<>>)
               \o StepsJson(Tail(lines))

\* CRUSH rule type codes in the JSON dump.
RuleTypeCode(type) == IF type = "replicated" THEN 1 ELSE 3

\* 'ceph osd crush rule dump <name> --format=json' parsed by json.loads.
RuleJson(map, name) ==
    LET i     == RuleIndex(map, name)
        j     == BlockEnd(map, i)
        body  == SubSeq(map, i + 1, j - 1)
        types == {k \in 1..Len(body) : Len(Words(body[k])) = 2 /\ Words(body[k])[1] = "type"}
    IN  [rule_name |-> name,
         type  |-> RuleTypeCode(Words(body[CHOOSE k \in types : TRUE])[2]),
         steps |-> StepsJson(body)]

\* crushtool -d: the text of a binary map
Decompile(map) == join("\n", map) \o "\n"

\* crushtool -c: the binary map of a text
Compile(text) == splitlines(text)

\* 'ceph osd crush rule create-replicated|create-erasure' on the map
CreatedRule(params) ==
    IF params.rule_type = "replicated"
    THEN RuleBlock(params.name, "replicated",
             <<"\tstep take " \o params.bucket_root
                 \o (IF Truthy(params.device_class)
                     THEN " class " \o params.device_class ELSE ""),
               "\tstep chooseleaf firstn 0 type " \o params.bucket_type,
               "\tstep emit">>)
    ELSE RuleBlock(params.name, "erasure",
             <<"\tstep set_chooseleaf_tries 5", "\tstep take default",
               "\tstep chooseleaf indep 0 type host", "\tstep emit">>)

\* 'ceph osd crush rule rm <name>' on the map
RemovedRule(map, name) ==
    LET i == RuleIndex(map, name)
    IN  SubSeq(map, 1, i - 1) \o SubSeq(map, BlockEnd(map, i) + 1, Len(map))


(***************************************************************************)
(* State of one host running the module against one cluster                *)
(***************************************************************************)

VARIABLES
    params,            \* module.params and module.check_mode
    cluster_map,       \* the CRUSH map installed in the cluster (its lines)
    pc,                \* position of the run in main()
    rc, cmd, out, err, \* main()'s rc, cmd, out, err
    changed,           \* main()'s changed
    rule,              \* main()'s rule (json.loads of the rule dump)
    patched_crushmap,  \* main()'s patched_crushmap
    decompile_dir,     \* the temporary directory of decompile_crushmap
    install_dir,       \* the temporary directory of install_crushmap
    log,               \* every step taken so far in this run, with its exit code
    result,            \* what the module handed to exit_json / fail_json
    runs,              \* number of runs of the module started so far
    ret,               \* return value of a function called on its own
    fs_cluster,        \* the CephFS volumes of the cluster and its mon flag
    volume_info,       \* json.loads of what get_fs_volume printed
    rival              \* what another operator of the cluster has installed

vars == <<params, cluster_map, pc, rc, cmd, out, err, changed, rule,
          patched_crushmap, decompile_dir, install_dir, log, result, runs, ret,
          fs_cluster, volume_info, rival>>

\* The variables that only runs of ceph_fs_volume use.
fs_vars == <<fs_cluster, volume_info>>

\* Python and JSON values that are an int, a str or None.
NoneVal == [kind |-> "none", int |-> 0, str |-> ""]
IntVal(n) == [kind |-> "int", int |-> n, str |-> ""]
StrVal(s) == [kind |-> "str", int |-> 0, str |-> s]

\* The cluster and the parsed info when no run of ceph_fs_volume is modelled.
NoFs == [volume |-> FALSE, mon_allow_pool_delete |-> FALSE, ents |-> <<>>]
NoInfo == [found |-> FALSE, bytes_quota |-> NoneVal, bytes_used |-> 0]

\* Number of consecutive runs of the module on the same host.
MaxRuns == 2

\* RULE_TYPES
RULE_TYPES(code) == IF code = 1 THEN "replicated" ELSE "erasure"

\* build_base_cmd_shell(module) when neither fsid nor image is given
build_base_cmd_shell == <<"cephadm", "shell">>

\* Names tempfile.TemporaryDirectory() gives the two directories.
DecompileTmp == "/tmp/tmpA"
InstallTmp == "/tmp/tmpB"

NoRule == [rule_name |-> None, type |-> 0, steps |-> <<>>]
NoDir == [live |-> FALSE, bin |-> <<>>, txt |-> None]
NoResult == [exited |-> FALSE, failed |-> FALSE, rc |-> 0, cmd |-> <<>>,
             out |-> "", err |-> "", changed |-> FALSE, msg |-> ""]

\* Another operator has installed nothing yet.
NoRival == [installed |-> FALSE, at |-> "", map |-> <<>>]

\* The outcome of a run that ends with an uncaught exception: neither
\* exit_json nor fail_json is called, the task fails.
Traceback == [NoResult EXCEPT !.failed = TRUE, !.rc = 1, !.msg = "MODULE FAILURE"]

\* What exec_command returns for a command the cluster refuses.
ExecFailure(tool) == [rc |-> 1, out |-> "", err |-> tool \o ": error"]
ExecSuccess == [rc |-> 0, out |-> "", err |-> ""]
ExecOutcomes(tool) == {ExecSuccess, ExecFailure(tool)}

\* One entry of the log.
Entry(c, r) == [cmd |-> c, rc |-> r]

(***************************************************************************)
(* The inputs of the model                                                 *)
(***************************************************************************)

BucketRoots == {"default", "hdd"}
BucketTypes == {"host", "rack"}
DeviceClasses == {None, "", "ssd"}

\* Parameter sets that pass the argument_spec's required_if rules.
ModuleParams ==
    {[name |-> "foo", state |-> "present", rule_type |-> "replicated",
      bucket_root |-> r, bucket_type |-> t, device_class |-> c,
      profile |-> None, check_mode |-> m] :
        r \in BucketRoots, t \in BucketTypes, c \in DeviceClasses, m \in BOOLEAN}
    \cup
    {[name |-> "foo", state |-> st, rule_type |-> "erasure",
      bucket_root |-> None, bucket_type |-> None, device_class |-> None,
      profile |-> "myprofile", check_mode |-> m] :
        st \in {"present", "absent"}, m \in BOOLEAN}
    \cup
    {[name |-> "foo", state |-> "absent", rule_type |-> None,
      bucket_root |-> None, bucket_type |-> None, device_class |-> None,
      profile |-> None, check_mode |-> FALSE]}
    \cup
    {[name |-> "foo", state |-> "present", rule_type |-> "erasure",
      bucket_root |-> "hdd", bucket_type |-> "rack", device_class |-> c,
      profile |-> pf, check_mode |-> FALSE] :
        c \in {None, "ssd"}, pf \in {"myprofile", "otherprofile"}}

\* Devices and buckets of the map, before its rules.
MapPreamble ==
    <<"device 0 osd.0 class ssd", "root default {", "\titem osd.0 weight 1.000", "}">>

TakeLines ==
    {"\tstep take default", "\tstep take default class ssd",
     "\tstep take hdd class hdd", "\tstep take ssd class ssd"}
ChooseLines ==
    {"\tstep chooseleaf firstn 0 type host", "\tstep chooseleaf firstn 0 type rack"}

ReplicatedBlocks(name) ==
    {RuleBlock(name, "replicated", <<tk, ch, "\tstep emit">>) :
        tk \in TakeLines, ch \in ChooseLines}
ErasureBlock(name) ==
    RuleBlock(name, "erasure",
        <<"\tstep set_chooseleaf_tries 5", "\tstep take default",
          "\tstep chooseleaf indep 0 type host", "\tstep emit">>)

\* The rule another operator of the cluster adds to the map.
RivalRule ==
    RuleBlock("bar", "replicated",
        <<"\tstep take default", "\tstep chooseleaf firstn 0 type host", "\tstep emit">>)

\* Maps a cluster can hold: rule foo missing, erasure or replicated, after
\* an optional rule foobar.
ClusterMaps ==
    {MapPreamble \o other \o target :
        other \in {<<>>, RuleBlock("foobar", "replicated",
                            <<"\tstep take default",
                              "\tstep chooseleaf firstn 0 type host",
                              "\tstep emit">>)},
        target \in {<<>>, ErasureBlock("foo")} \cup ReplicatedBlocks("foo")}


(***************************************************************************)
(* The commands the module composes                                        *)
(***************************************************************************)

get_rule_cmd(p) ==
    build_base_cmd_shell
      \o <<"ceph", "osd", "crush", "rule", "dump", p.name, "--format=json">>

create_rule(p) ==
    build_base_cmd_shell \o <<"ceph", "osd", "crush", "rule">>
      \o (IF p.rule_type = "replicated"
          THEN <<"create-replicated", p.name, p.bucket_root, p.bucket_type>>
                 \o (IF Truthy(p.device_class) THEN <<p.device_class>> ELSE <<>>)
          ELSE <<"create-erasure", p.name>>
                 \o (IF Truthy(p.profile) THEN <<p.profile>> ELSE <<>>))

remove_rule(p) ==
    build_base_cmd_shell \o <<"ceph", "osd", "crush", "rule", "rm", p.name>>

\* cmd of decompile_crushmap / install_crushmap: the shell with the
\* temporary directory mounted
mount_cmd(tmpdirname) ==
    build_base_cmd_shell \o <<"--mount", tmpdirname \o ":" \o tmpdirname, "--">>

dump_crush_map(tmpdirname) ==
    mount_cmd(tmpdirname)
      \o <<"ceph", "osd", "getcrushmap", "-o", tmpdirname \o "/_raw_crushmap.bin">>

decompile_map(tmpdirname) ==
    mount_cmd(tmpdirname)
      \o <<"crushtool", "-d", tmpdirname \o "/_raw_crushmap.bin",
           "-o", tmpdirname \o "/_crushmap.txt">>

compile_map(tmpdirname) ==
    mount_cmd(tmpdirname)
      \o <<"crushtool", "-c", tmpdirname \o "/_patched_crushmap.txt",
           "-o", tmpdirname \o "/_raw_patched_crushmap.bin">>

install_map(tmpdirname) ==
    mount_cmd(tmpdirname)
      \o <<"ceph", "osd", "setcrushmap", "-i",
           tmpdirname \o "/_raw_patched_crushmap.bin">>

\* The two steps of the reconcile path that run no external command.
PatchStep == <<"patch_content">>
WriteStep(tmpdirname) == <<"write", tmpdirname \o "/_patched_crushmap.txt">>

(***************************************************************************)
(* main()                                                                  *)
(***************************************************************************)

MainInit ==
    /\ params \in ModuleParams
    /\ cluster_map \in ClusterMaps
    /\ pc = "start"
    /\ rc = 0 /\ cmd = <<>> /\ out = "" /\ err = ""
    /\ changed = FALSE
    /\ rule = NoRule
    /\ patched_crushmap = None
    /\ decompile_dir = NoDir
    /\ install_dir = NoDir
    /\ log = <<>>
    /\ result = NoResult
    /\ runs = 1
    /\ ret = FALSE
    /\ rival = NoRival
    /\ fs_cluster = NoFs /\ volume_info = NoInfo

\* exit_module(module, out, rc, cmd, err, startd, changed): hands the
\* values to module.exit_json, which ends the process.
exit_module(o, r, c, e, ch) ==
    [exited |-> TRUE, failed |-> FALSE, rc |-> r, cmd |-> c, out |-> o,
     err |-> e, changed |-> ch, msg |-> ""]

\* if module.check_mode: module.exit_json(changed=False, ..., rc=0, ...)
CheckModeExit ==
    /\ pc = "start" /\ params.check_mode
    /\ result' = [NoResult EXCEPT !.exited = TRUE]
    /\ pc' = "done"
    /\ UNCHANGED <<fs_vars, rival, params, cluster_map, rc, cmd, out, err, changed, rule,
                   patched_crushmap, decompile_dir, install_dir, log, runs, ret>>

\* rc, cmd, out, err = exec_command(module, get_rule); on rc = 0 the present
\* branch parses the dump.
GetRule ==
    /\ pc = "start" /\ ~params.check_mode
    /\ LET exists == RuleIndex(cluster_map, params.name) # 0
       IN  /\ rc' = IF exists THEN 0 ELSE 2
           /\ out' = IF exists THEN "{\"rule_name\": \"" \o params.name \o "\"}" ELSE ""
           /\ err' = IF exists THEN ""
                     ELSE "Error ENOENT: unknown crush rule '" \o params.name \o "'"
           /\ rule' = IF exists /\ params.state = "present"
                      THEN RuleJson(cluster_map, params.name) ELSE NoRule
           /\ log' = Append(log, Entry(get_rule_cmd(params), IF exists THEN 0 ELSE 2))
    /\ cmd' = get_rule_cmd(params)
    /\ pc' = "got_rule"
    /\ UNCHANGED <<fs_vars, rival, params, cluster_map, changed, patched_crushmap,
                   decompile_dir, install_dir, result, runs, ret>>

\* state == "present" and rc != 0: create the rule.
CreateRule ==
    /\ pc = "got_rule" /\ params.state = "present" /\ rc # 0
    /\ \E res \in ExecOutcomes("create") :
        /\ rc' = res.rc /\ out' = res.out /\ err' = res.err
        /\ cluster_map' = IF res.rc = 0 THEN cluster_map \o CreatedRule(params)
                          ELSE cluster_map
        /\ log' = Append(log, Entry(create_rule(params), res.rc))
    /\ cmd' = create_rule(params)
    /\ changed' = TRUE
    /\ pc' = "exit"
    /\ UNCHANGED <<fs_vars, rival, params, rule, patched_crushmap, decompile_dir, install_dir,
                   result, runs, ret>>

\* FailTypeChange with a slip: the type test is made but module.fail_json is
\* not called, and main() goes on to line 412 and to exit_module.
FailTypeChangeFallsThrough ==
    /\ pc = "got_rule" /\ params.state = "present" /\ rc = 0
    /\ params.rule_type # RULE_TYPES(rule.type)
    /\ pc' = "exit"
    /\ UNCHANGED <<fs_vars, rival, params, cluster_map, rc, cmd, out, err, changed, rule,
                   patched_crushmap, decompile_dir, install_dir, log, result,
                   runs, ret>>

\* rule_type != RULE_TYPES[rule['type']]: module.fail_json(...)
FailTypeChange ==
    /\ pc = "got_rule" /\ params.state = "present" /\ rc = 0
    /\ params.rule_type # RULE_TYPES(rule.type)
    /\ result' = [NoResult EXCEPT !.exited = TRUE, !.failed = TRUE, !.rc = 1,
                    !.msg = "Can not convert crush rule " \o params.name
                              \o " to " \o params.rule_type]
    /\ pc' = "done"
    /\ UNCHANGED <<fs_vars, rival, params, cluster_map, rc, cmd, out, err, changed, rule,
                   patched_crushmap, decompile_dir, install_dir, log, runs, ret>>

\* MustReconcile with a slip: line 412 tests need_changes(module, rule) alone,
\* whatever the rule's type.
MustReconcileAnyType ==
    /\ pc = "got_rule" /\ params.state = "present" /\ rc = 0
    /\ params.rule_type = RULE_TYPES(rule.type)
    /\ need_changes(params, rule)

\* The guard of the reconcile path (line 412).
MustReconcile ==
    /\ pc = "got_rule" /\ params.state = "present" /\ rc = 0
    /\ params.rule_type = RULE_TYPES(rule.type)
    /\ params.rule_type = "replicated" /\ need_changes(params, rule)

\* The rule exists, has the requested type and line 412's test is false.
NoChanges ==
    /\ pc = "got_rule" /\ params.state = "present" /\ rc = 0
    /\ params.rule_type = RULE_TYPES(rule.type)
    /\ ~(params.rule_type = "replicated" /\ need_changes(params, rule))
    /\ pc' = "exit"
    /\ UNCHANGED <<fs_vars, rival, params, cluster_map, rc, cmd, out, err, changed, rule,
                   patched_crushmap, decompile_dir, install_dir, log, result,
                   runs, ret>>


(***************************************************************************)
(* decompile_crushmap, patch_content and install_crushmap as main() runs   *)
(* them, one action for each step                                          *)
(***************************************************************************)

\* DumpCrushMap with a slip: the exit code of 'ceph osd getcrushmap' is not
\* tested and the function goes on to 'crushtool -d'.
DumpCrushMapNoReturn ==
    /\ MustReconcile
    /\ \E res \in ExecOutcomes("getcrushmap") :
        log' = Append(log, Entry(dump_crush_map(DecompileTmp), res.rc))
    /\ decompile_dir' = [live |-> TRUE, bin |-> cluster_map, txt |-> None]
    /\ pc' = "decompile"
    /\ UNCHANGED <<fs_vars, rival, params, cluster_map, rc, cmd, out, err, changed, rule,
                   patched_crushmap, install_dir, result, runs, ret>>

\* decompile_crushmap up to its first exec_command: the temporary directory
\* is made and 'ceph osd getcrushmap' runs; on a nonzero exit the function
\* returns, the directory is removed and main() leaves through exit_module.
DumpCrushMap ==
    /\ MustReconcile
    /\ \E res \in ExecOutcomes("getcrushmap") :
        /\ log' = Append(log, Entry(dump_crush_map(DecompileTmp), res.rc))
        /\ IF res.rc # 0
           THEN /\ rc' = res.rc
                /\ cmd' = dump_crush_map(DecompileTmp)
                /\ out' = "dump of the CRUSH map failed with output: " \o res.out
                /\ err' = res.err
                /\ decompile_dir' = NoDir
                /\ pc' = "exit"
           ELSE /\ decompile_dir' = [live |-> TRUE, bin |-> cluster_map, txt |-> None]
                /\ pc' = "decompile"
                /\ UNCHANGED <<rc, cmd, out, err>>
    /\ UNCHANGED <<fs_vars, rival, params, cluster_map, changed, rule, patched_crushmap,
                   install_dir, result, runs, ret>>

\* DecompileCrushMap with a slip: the directory comes from tempfile.mkdtemp()
\* and is removed only after the decompiled text was read, so that the early
\* return after a failed 'crushtool -d' leaves it behind.
DecompileCrushMapLeaksDir ==
    /\ pc = "decompile"
    /\ \E res \in ExecOutcomes("crushtool") :
        /\ log' = Append(log, Entry(decompile_map(DecompileTmp), res.rc))
        /\ rc' = res.rc
        /\ cmd' = decompile_map(DecompileTmp)
        /\ IF res.rc # 0
           THEN /\ out' = "decompile of the CRUSH map failed with output: " \o res.out
                /\ err' = res.err
                /\ pc' = "exit"
                /\ UNCHANGED decompile_dir
           ELSE /\ out' = Decompile(decompile_dir.bin)
                /\ err' = ""
                /\ pc' = "patch"
                /\ decompile_dir' = NoDir
    /\ UNCHANGED <<fs_vars, rival, params, cluster_map, changed, rule, patched_crushmap,
                   install_dir, result, runs, ret>>

\* decompile_crushmap from its second exec_command on: 'crushtool -d'; on
\* success the text is read, the directory removed and main() continues.
DecompileCrushMap ==
    /\ pc = "decompile"
    /\ \E res \in ExecOutcomes("crushtool") :
        /\ log' = Append(log, Entry(decompile_map(DecompileTmp), res.rc))
        /\ rc' = res.rc
        /\ cmd' = decompile_map(DecompileTmp)
        /\ IF res.rc # 0
           THEN /\ out' = "decompile of the CRUSH map failed with output: " \o res.out
                /\ err' = res.err
                /\ pc' = "exit"
           ELSE /\ out' = Decompile(decompile_dir.bin)
                /\ err' = ""
                /\ pc' = "patch"
    /\ decompile_dir' = NoDir
    /\ UNCHANGED <<fs_vars, rival, params, cluster_map, changed, rule, patched_crushmap,
                   install_dir, result, runs, ret>>

\* decompile_crushmap when 'crushtool -d' returned 0 and open() or read() of
\* the decompiled file raises: the with block is left, the directory removed,
\* and the exception ends the run.
ReadCrushMapRaises ==
    /\ pc = "decompile"
    /\ log' = Append(log, Entry(decompile_map(DecompileTmp), 0))
    /\ decompile_dir' = NoDir
    /\ result' = Traceback
    /\ pc' = "done"
    /\ UNCHANGED <<fs_vars, rival, params, cluster_map, rc, cmd, out, err, changed, rule,
                   patched_crushmap, install_dir, runs, ret>>

\* patched_crushmap = patch_content(module, out)
PatchContent ==
    /\ pc = "patch"
    /\ patched_crushmap' = patch_content(params, out)
    /\ log' = Append(log, Entry(PatchStep, 0))
    /\ pc' = "compile"
    /\ UNCHANGED <<fs_vars, rival, params, cluster_map, rc, cmd, out, err, changed, rule,
                   decompile_dir, install_dir, result, runs, ret>>

\* install_crushmap when open() or write() of the patched file raises: the
\* directory was made, the with block is left, the directory removed, and the
\* exception ends the run before 'crushtool -c'.
WriteCrushMapRaises ==
    /\ pc = "compile"
    /\ log' = Append(log, Entry(WriteStep(InstallTmp), 1))
    /\ install_dir' = NoDir
    /\ result' = Traceback
    /\ pc' = "done"
    /\ UNCHANGED <<fs_vars, rival, params, cluster_map, rc, cmd, out, err, changed, rule,
                   patched_crushmap, decompile_dir, runs, ret>>

\* CompileCrushMap with a slip: on a nonzero exit of 'crushtool -c' the
\* function returns the exit code and the message but not the command of the
\* step, and main() keeps the command of 'crushtool -d'.
CompileCrushMapStaleCmd ==
    /\ pc = "compile"
    /\ \E res \in ExecOutcomes("crushtool") :
        /\ log' = log \o <<Entry(WriteStep(InstallTmp), 0),
                           Entry(compile_map(InstallTmp), res.rc)>>
        /\ IF res.rc # 0
           THEN /\ rc' = res.rc
                /\ out' = "compilation of the CRUSH map failed with output: " \o res.out
                /\ err' = res.err
                /\ install_dir' = NoDir
                /\ changed' = TRUE
                /\ pc' = "exit"
                /\ UNCHANGED cmd
           ELSE /\ install_dir' = [live |-> TRUE, bin |-> Compile(patched_crushmap),
                                   txt |-> patched_crushmap]
                /\ pc' = "install"
                /\ UNCHANGED <<rc, cmd, out, err, changed>>
    /\ UNCHANGED <<fs_vars, rival, params, cluster_map, rule, patched_crushmap, decompile_dir,
                   result, runs, ret>>

\* install_crushmap up to its first exec_command: the patched text is
\* written to a new temporary directory and 'crushtool -c' runs; on a nonzero
\* exit the function returns and main() sets changed = True (line 418).
CompileCrushMap ==
    /\ pc = "compile"
    /\ \E res \in ExecOutcomes("crushtool") :
        /\ log' = log \o <<Entry(WriteStep(InstallTmp), 0),
                           Entry(compile_map(InstallTmp), res.rc)>>
        /\ IF res.rc # 0
           THEN /\ rc' = res.rc
                /\ cmd' = compile_map(InstallTmp)
                /\ out' = "compilation of the CRUSH map failed with output: " \o res.out
                /\ err' = res.err
                /\ install_dir' = NoDir
                /\ changed' = TRUE
                /\ pc' = "exit"
           ELSE /\ install_dir' = [live |-> TRUE, bin |-> Compile(patched_crushmap),
                                   txt |-> patched_crushmap]
                /\ pc' = "install"
                /\ UNCHANGED <<rc, cmd, out, err, changed>>
    /\ UNCHANGED <<fs_vars, rival, params, cluster_map, rule, patched_crushmap, decompile_dir,
                   result, runs, ret>>

\* InstallCrushMap with a slip: setcrushmap keeps a rule of the cluster's map
\* that the installed map lacks, as if the two maps were merged.
InstallCrushMapMerging ==
    /\ pc = "install"
    /\ \E res \in ExecOutcomes("setcrushmap") :
        /\ log' = Append(log, Entry(install_map(InstallTmp), res.rc))
        /\ rc' = res.rc
        /\ err' = res.err
        /\ out' = IF res.rc # 0
                  THEN "installation of the CRUSH map failed with output: " \o res.out
                  ELSE res.out
        /\ cluster_map' = IF res.rc # 0 THEN cluster_map
                          ELSE IF RuleIndex(cluster_map, "bar") # 0
                                    /\ RuleIndex(install_dir.bin, "bar") = 0
                          THEN install_dir.bin \o RivalRule
                          ELSE install_dir.bin
    /\ cmd' = install_map(InstallTmp)
    /\ install_dir' = NoDir
    /\ changed' = TRUE
    /\ pc' = "exit"
    /\ UNCHANGED <<fs_vars, rival, params, rule, patched_crushmap, decompile_dir, result, runs, ret>>

\* install_crushmap from its second exec_command on: 'ceph osd setcrushmap';
\* the function returns either way and main() sets changed = True.
InstallCrushMap ==
    /\ pc = "install"
    /\ \E res \in ExecOutcomes("setcrushmap") :
        /\ log' = Append(log, Entry(install_map(InstallTmp), res.rc))
        /\ rc' = res.rc
        /\ err' = res.err
        /\ out' = IF res.rc # 0
                  THEN "installation of the CRUSH map failed with output: " \o res.out
                  ELSE res.out
        /\ cluster_map' = IF res.rc = 0 THEN install_dir.bin ELSE cluster_map
    /\ cmd' = install_map(InstallTmp)
    /\ install_dir' = NoDir
    /\ changed' = TRUE
    /\ pc' = "exit"
    /\ UNCHANGED <<fs_vars, rival, params, rule, patched_crushmap, decompile_dir, result, runs, ret>>

\* state == "absent" and rc == 0: remove the rule.
RemoveRule ==
    /\ pc = "got_rule" /\ params.state = "absent" /\ rc = 0
    /\ \E res \in ExecOutcomes("rm") :
        /\ rc' = res.rc /\ out' = res.out /\ err' = res.err
        /\ cluster_map' = IF res.rc = 0 THEN RemovedRule(cluster_map, params.name)
                          ELSE cluster_map
        /\ log' = Append(log, Entry(remove_rule(params), res.rc))
    /\ cmd' = remove_rule(params)
    /\ changed' = TRUE
    /\ pc' = "exit"
    /\ UNCHANGED <<fs_vars, rival, params, rule, patched_crushmap, decompile_dir, install_dir,
                   result, runs, ret>>

\* state == "absent" and rc != 0: nothing to remove.
AbsentNoRule ==
    /\ pc = "got_rule" /\ params.state = "absent" /\ rc # 0
    /\ rc' = 0
    /\ out' = "Crush Rule " \o params.name \o " doesn't exist"
    /\ pc' = "exit"
    /\ UNCHANGED <<fs_vars, rival, params, cluster_map, cmd, err, changed, rule, patched_crushmap,
                   decompile_dir, install_dir, log, result, runs, ret>>

\* exit_module(module=module, out=out, rc=rc, cmd=cmd, err=err, ...,
\* changed=changed) at line 415 or line 430
ExitModule ==
    /\ pc = "exit"
    /\ result' = exit_module(out, rc, cmd, err, changed)
    /\ pc' = "done"
    /\ UNCHANGED <<fs_vars, rival, params, cluster_map, rc, cmd, out, err, changed, rule,
                   patched_crushmap, decompile_dir, install_dir, log, runs, ret>>

\* The play runs the same task again: a new process, the same parameters,
\* the cluster as the last run left it.
Rerun ==
    /\ pc = "done" /\ runs < MaxRuns
    /\ runs' = runs + 1
    /\ pc' = "start"
    /\ rc' = 0 /\ cmd' = <<>> /\ out' = "" /\ err' = ""
    /\ changed' = FALSE
    /\ rule' = NoRule
    /\ patched_crushmap' = None
    /\ log' = <<>>
    /\ result' = NoResult
    /\ UNCHANGED <<fs_vars, rival, params, cluster_map, decompile_dir, install_dir, ret>>

Next ==
    \/ CheckModeExit
    \/ GetRule
    \/ CreateRule
    \/ FailTypeChange
    \/ NoChanges
    \/ DumpCrushMap
    \/ DecompileCrushMap
    \/ ReadCrushMapRaises
    \/ PatchContent
    \/ WriteCrushMapRaises
    \/ CompileCrushMap
    \/ InstallCrushMap
    \/ RemoveRule
    \/ AbsentNoRule
    \/ ExitModule
    \/ Rerun

Spec == MainInit /\ [][Next]_vars


(***************************************************************************)
(* main() on a cluster that another operator changes as well               *)
(***************************************************************************)

\* Another operator installs a map of their own between two steps of this
\* run, once: the map the cluster holds at that moment with one more rule
\* ('ceph osd setcrushmap' from another host; nothing in main() excludes it).
RivalInstall ==
    /\ ~rival.installed
    /\ pc # "done"
    /\ cluster_map' = cluster_map \o RivalRule
    /\ rival' = [installed |-> TRUE, at |-> pc, map |-> cluster_map']
    /\ UNCHANGED <<fs_vars, params, pc, rc, cmd, out, err, changed, rule,
                   patched_crushmap, decompile_dir, install_dir, log, result,
                   runs, ret>>

\* One run of main() and the other operator.
RaceNext ==
    \/ CheckModeExit
    \/ GetRule
    \/ CreateRule
    \/ FailTypeChange
    \/ NoChanges
    \/ DumpCrushMap
    \/ DecompileCrushMap
    \/ ReadCrushMapRaises
    \/ PatchContent
    \/ WriteCrushMapRaises
    \/ CompileCrushMap
    \/ InstallCrushMap
    \/ RemoveRule
    \/ AbsentNoRule
    \/ ExitModule
    \/ RivalInstall

SpecRace == MainInit /\ [][RaceNext]_vars


(***************************************************************************)
(* patch_content called on its own: the inputs are drawn from bounded sets *)
(* and the call is the step PatchContent of main().                        *)
(***************************************************************************)

\* Largest number of rule blocks in a map text given to patch_content.
MaxRules == 2

PatchRuleNames == {"foo", "foobar", "bar"}

\* 'step take' lines of the patched rule: plain, with a class, with a root
\* named like its class, with a root whose name occurs in the words before it.
PatchTakeLines ==
    {"\tstep take default", "\tstep take default class ssd",
     "\tstep take ssd class ssd", "\tstep take a", "  step take a class hdd"}

\* 'step chooseleaf' lines of the patched rule; a firstn count other than 0
\* is a line the second pattern does not match.
PatchChooseLines ==
    {"\tstep chooseleaf firstn 0 type host", "\tstep chooseleaf firstn 0 type leaf",
     "\tstep chooseleaf firstn 2 type host"}

\* The blocks a rule of the given name can have in a text: rule foo with
\* every pair of lines and a comment, the other rules with one body.
PatchBlocks(name) ==
    IF name = "foo"
    THEN {RuleBlock(name, "replicated",
             <<tk, ch, "\t# step take default class ssd", "\tstep emit">>) :
             tk \in PatchTakeLines, ch \in PatchChooseLines}
    ELSE {RuleBlock(name, "replicated",
             <<"\tstep take default class ssd",
               "\tstep chooseleaf firstn 0 type host", "\tstep emit">>)}

\* The rule lines of every map with n rule blocks of distinct names.
RECURSIVE RuleSections(_, _)
RuleSections(n, names) ==
    IF n = 0 THEN {<<>>}
    ELSE UNION {{b \o rest : b \in PatchBlocks(nm),
                             rest \in RuleSections(n - 1, names \ {nm})} :
                nm \in names}

\* Decompiled map texts: with and without the final line terminator.
PatchTexts ==
    {join("\n", MapPreamble \o rules) \o trailer :
        rules \in UNION {RuleSections(n, PatchRuleNames) : n \in 0..MaxRules},
        trailer \in {"", "\n"}}

PatchParams ==
    {[name |-> n, state |-> "present", rule_type |-> "replicated",
      bucket_root |-> r, bucket_type |-> t, device_class |-> c,
      profile |-> None, check_mode |-> FALSE] :
        n \in {"foo", "fo"}, r \in BucketRoots, t \in BucketTypes,
        c \in DeviceClasses \cup {"hdd"}}

PatchInit ==
    /\ params \in PatchParams
    /\ cluster_map = <<>>
    /\ pc = "patch"
    /\ rc = 0 /\ cmd = <<>> /\ err = ""
    /\ out \in PatchTexts
    /\ changed = FALSE
    /\ rule = NoRule
    /\ patched_crushmap = None
    /\ decompile_dir = NoDir
    /\ install_dir = NoDir
    /\ log = <<>>
    /\ result = NoResult
    /\ runs = 1
    /\ ret = FALSE
    /\ rival = NoRival
    /\ fs_cluster = NoFs /\ volume_info = NoInfo

SpecPatch == PatchInit /\ [][PatchContent]_vars

(***************************************************************************)
(* need_changes called on its own                                          *)
(***************************************************************************)

\* Largest number of steps of a dumped rule.
MaxSteps == 3

\* Steps of a dumped rule: take with and without a class, chooseleaf_firstn,
\* and two ops need_changes does not look at (one of them with a type).
StepPool ==
    {Step("take", "default", None), Step("take", "default~ssd", None),
     Step("take", "hdd", None),
     Step("chooseleaf_firstn", None, "host"), Step("chooseleaf_firstn", None, "rack"),
     Step("choose_firstn", None, "osd"), Step("emit", None, None)}

RECURSIVE StepSeqs(_)
StepSeqs(n) ==
    IF n = 0 THEN {<<>>}
    ELSE {<<>>} \cup {<<st>> \o rest : st \in StepPool, rest \in StepSeqs(n - 1)}

NeedInit ==
    /\ params \in {q \in PatchParams : q.name = "foo" /\ q.device_class # "hdd"}
    /\ rule \in {[rule_name |-> "foo", type |-> 1, steps |-> sq] : sq \in StepSeqs(MaxSteps)}
    /\ cluster_map = <<>>
    /\ pc = "need_changes"
    /\ rc = 0 /\ cmd = <<>> /\ out = "" /\ err = ""
    /\ changed = FALSE
    /\ patched_crushmap = None
    /\ decompile_dir = NoDir
    /\ install_dir = NoDir
    /\ log = <<>>
    /\ result = NoResult
    /\ runs = 1
    /\ ret = FALSE
    /\ rival = NoRival
    /\ fs_cluster = NoFs /\ volume_info = NoInfo

\* need_changes(module, rule) returns.
NeedChangesCall ==
    /\ pc = "need_changes"
    /\ ret' = need_changes(params, rule)
    /\ pc' = "returned"
    /\ UNCHANGED <<fs_vars, rival, params, cluster_map, rc, cmd, out, err, changed, rule,
                   patched_crushmap, decompile_dir, install_dir, log, result, runs>>

SpecNeed == NeedInit /\ [][NeedChangesCall]_vars


(***************************************************************************)
(* ceph_fs_volume: the values and the commands the module composes         *)
(***************************************************************************)

Digits == <<"0", "1", "2", "3", "4", "5", "6", "7", "8", "9">>

\* The decimal text of a natural number.
RECURSIVE IntToStr(_)
IntToStr(n) ==
    IF n < 10 THEN Digits[n + 1] ELSE IntToStr(n \div 10) \o Digits[(n % 10) + 1]

\* str(x) of an int that is not negative, of a str and of None
str(v) ==
    IF v.kind = "int" THEN IntToStr(v.int)
    ELSE IF v.kind = "str" THEN v.str
    ELSE "None"

\* str_size = str(size) if size and size > 0 else None (line 404)
str_size(size) ==
    IF size.kind = "int" /\ size.int # 0 /\ size.int > 0 THEN str(size) ELSE None

\* need_resize with a slip: the new size is str(target_size) also for 0, the
\* value that 'ceph fs subvolume create' takes for 'no quota'.
need_resizeZeroAsDecimal(p, info) ==
    LET target_size == p.size
        volume_type == p.type
    IN  IF volume_type # "volume" /\ target_size # NoneVal
        THEN LET old_size == str(info.bytes_quota)
                 new_size == str(target_size)
             IN  old_size # new_size
        ELSE FALSE

\* need_resize(module, stdout), on the parsed stdout (lines 186-200)
need_resize(p, info) ==
    LET target_size == p.size
        volume_type == p.type
    IN  IF volume_type # "volume" /\ target_size # NoneVal
        THEN LET old_size == str(info.bytes_quota)
                 new_size == IF target_size.int > 0 THEN str(target_size)
                             ELSE "infinite"
             IN  old_size # new_size
        ELSE FALSE

\* get_fs_volume(module, name, volume_type, parent_volume, parent_group):
\* the command it executes
get_fs_volume(name, volume_type, parent_volume, parent_group) ==
    build_base_cmd_shell \o <<"ceph", "fs">>
      \o (IF volume_type = "volume"
          THEN <<"volume", "info", name, "--format=json">>
          ELSE IF volume_type = "subvolume_group"
          THEN <<"subvolumegroup", "info", parent_volume, name, "--format=json">>
          ELSE IF volume_type = "subvolume"
          THEN <<"subvolume", "info", parent_volume, name, parent_group,
                 "--format=json">>
          ELSE <<>>)

\* resize_fs_volume with a slip: the subvolume branch leaves no_shrink out.
resize_fs_volumeGroupOnly(p, name, volume_type, parent_volume, parent_group, size) ==
    LET no_shrink == IF ~p.force_shrink THEN "--no-shrink" ELSE None
    IN  build_base_cmd_shell \o <<"ceph", "fs">>
          \o (IF volume_type = "subvolume_group"
              THEN <<"subvolumegroup", "resize", parent_volume, name, size, no_shrink>>
              ELSE IF volume_type = "subvolume"
              THEN <<"subvolume", "resize", parent_volume, name, size, parent_group>>
              ELSE <<>>)

\* resize_fs_volume(module, name, volume_type, parent_volume, parent_group,
\* size): the command it executes (lines 223-232)
resize_fs_volume(p, name, volume_type, parent_volume, parent_group, size) ==
    LET no_shrink == IF ~p.force_shrink THEN "--no-shrink" ELSE None
    IN  build_base_cmd_shell \o <<"ceph", "fs">>
          \o (IF volume_type = "subvolume_group"
              THEN <<"subvolumegroup", "resize", parent_volume, name, size, no_shrink>>
              ELSE IF volume_type = "subvolume"
              THEN <<"subvolume", "resize", parent_volume, name, size, parent_group,
                     no_shrink>>
              ELSE <<>>)

\* create_fs_volume with a slip: the command of the entity itself is executed
\* before the recursive calls for its parents.
create_fs_volumeChildFirst(p, name, volume_type, parent_volume, parent_group, size) ==
    LET create_fs == build_base_cmd_shell \o <<"ceph", "fs">>
        volume == create_fs \o <<"volume", "create", parent_volume, p.initial_placement>>
        group  == create_fs \o <<"subvolumegroup", "create", parent_volume,
                                 parent_group, None>>
    IN  IF volume_type = "volume"
        THEN <<create_fs \o <<"volume", "create", name, p.initial_placement>>>>
        ELSE IF volume_type = "subvolume_group"
        THEN <<create_fs \o <<"subvolumegroup", "create", parent_volume, name, size>>,
               volume>>
        ELSE IF volume_type = "subvolume"
        THEN <<create_fs \o <<"subvolume", "create", parent_volume, name, size,
                              parent_group>>>>
               \o (IF Truthy(parent_group) THEN <<group, volume>> ELSE <<volume>>)
        ELSE <<create_fs>>

\* create_fs_volume(module, name, volume_type, parent_volume, parent_group,
\* size): the commands it executes, in order, the recursive calls for the
\* parents first (lines 258-285); a nonzero exit ends the sequence.
RECURSIVE create_fs_volume(_, _, _, _, _, _)
create_fs_volume(p, name, volume_type, parent_volume, parent_group, size) ==
    LET create_fs == build_base_cmd_shell \o <<"ceph", "fs">>
    IN  IF volume_type = "volume"
        THEN <<create_fs \o <<"volume", "create", name, p.initial_placement>>>>
        ELSE IF volume_type = "subvolume_group"
        THEN create_fs_volume(p, parent_volume, "volume", None, None, None)
               \o <<create_fs \o <<"subvolumegroup", "create", parent_volume, name, size>>>>
        ELSE IF volume_type = "subvolume"
        THEN (IF Truthy(parent_group)
              THEN create_fs_volume(p, parent_group, "subvolume_group",
                                    parent_volume, None, None)
              ELSE create_fs_volume(p, parent_volume, "volume", None, None, None))
               \o <<create_fs \o <<"subvolume", "create", parent_volume, name, size,
                                   parent_group>>>>
        ELSE <<create_fs>>

\* get_remove_allowed_flag(module): the command it executes
get_remove_allowed_flag ==
    build_base_cmd_shell
      \o <<"ceph", "config", "get", "mon", "mon_allow_pool_delete", "--format=json">>

\* set_remove_allowed_flag(module, flag_value): the command it executes, with
\* str(flag_value) of a bool
set_remove_allowed_flag(flag_value) ==
    build_base_cmd_shell
      \o <<"ceph", "config", "set", "mon", "mon_allow_pool_delete",
           IF flag_value THEN "True" ELSE "False">>

\* remove_fs_volume(module, name, volume_type, parent_volume, parent_group):
\* the rm command it composes (lines 346-362)
remove_fs_volume(name, volume_type, parent_volume, parent_group) ==
    build_base_cmd_shell \o <<"ceph", "fs">>
      \o (IF volume_type = "volume"
          THEN <<"volume", "rm", name, "--yes-i-really-mean-it">>
          ELSE IF volume_type = "subvolume_group"
          THEN <<"subvolumegroup", "rm", parent_volume, name>>
          ELSE IF volume_type = "subvolume"
          THEN <<"subvolume", "rm", parent_volume, name, parent_group>>
          ELSE <<>>)

EPERM ==
    "Error EPERM: pool deletion is disabled; you must first set the "
      \o "mon_allow_pool_delete config option to true before volumes can be deleted"


(***************************************************************************)
(* The cluster as the 'ceph fs' commands see it                            *)
(***************************************************************************)

\* The arguments the process is started with: run_command leaves out the
\* None elements of the list.
Argv(c) == SelectSeq(c, LAMBDA a : a # None)

IsDigits(s) == s # "" /\ \A i \in 1..Len(s) : \E k \in 1..10 : Digits[k] = SubSeq(s, i, i)

RECURSIVE StrToNat(_)
StrToNat(s) ==
    IF s = "" THEN 0
    ELSE LET d == SubSeq(s, Len(s), Len(s))
         IN  StrToNat(SubSeq(s, 1, Len(s) - 1)) * 10
               + ((CHOOSE k \in 1..10 : Digits[k] = d) - 1)

\* The subvolume groups and subvolumes of volume vol01 the model knows.
FsEntities == {"vol01/gr01", "vol01/gr01/sub01", "vol01/_nogroup/sub01"}
NoEntity == [exists |-> FALSE, bytes_quota |-> NoneVal, bytes_used |-> 0]

FsReply(r, o, e, c, i) == [rc |-> r, out |-> o, err |-> e, cluster |-> c, info |-> i]

\* What 'ceph fs subvolumegroup info' and 'ceph fs subvolume info' print.
InfoJson(ent) ==
    "{\"bytes_quota\": "
      \o (IF ent.bytes_quota.kind = "int" THEN IntToStr(ent.bytes_quota.int)
          ELSE "\"" \o ent.bytes_quota.str \o "\"")
      \o ", \"bytes_used\": " \o IntToStr(ent.bytes_used) \o "}"

\* ceph fs volume create | info | rm
CephFsVolume(c, verb) ==
    IF verb = "create"
    THEN FsReply(0, "", "", [c EXCEPT !.volume = TRUE], NoInfo)
    ELSE IF ~c.volume
    THEN FsReply(2, "", "Error ENOENT: filesystem does not exist", c, NoInfo)
    ELSE IF verb = "info"
    THEN FsReply(0, "{\"mon_addrs\": []}", "", c,
                 [found |-> TRUE, bytes_quota |-> NoneVal, bytes_used |-> 0])
    ELSE IF ~c.mon_allow_pool_delete
    THEN FsReply(1, "", EPERM, c, NoInfo)
    ELSE FsReply(0, "", "",
                 [c EXCEPT !.volume = FALSE,
                           !.ents = [e \in FsEntities |-> NoEntity]], NoInfo)

\* ceph fs subvolumegroup | subvolume  create | info | resize | rm, with
\* the positional arguments pos: a size that is not a number is taken for the
\* next optional argument by create and refused by resize.
CephFsEntity(c, sub, verb, pos, no_shrink) ==
    LET has_size == verb = "resize"
                      \/ (verb = "create" /\ Len(pos) >= 3 /\ IsDigits(pos[3]))
        rest == SubSeq(pos, IF has_size THEN 4 ELSE 3, Len(pos))
        group == IF rest # <<>> THEN rest[1] ELSE "_nogroup"
        path == IF sub = "subvolumegroup" THEN pos[1] \o "/" \o pos[2]
                ELSE pos[1] \o "/" \o group \o "/" \o pos[2]
        einval(what) == FsReply(22, "", "Error EINVAL: " \o what, c, NoInfo)
        enoent(what) == FsReply(2, "", "Error ENOENT: " \o what, c, NoInfo)
        set(ent) == [c EXCEPT !.ents[path] = ent]
    IN  IF Len(pos) < 2 \/ (verb = "resize" /\ Len(pos) < 3)
        THEN einval("missing required parameter")
        ELSE IF ~c.volume \/ path \notin FsEntities
        THEN enoent("no such volume, group or subvolume")
        ELSE IF sub = "subvolume" /\ group # "_nogroup"
                /\ ~c.ents[pos[1] \o "/" \o group].exists
        THEN enoent("subvolume group does not exist")
        ELSE IF verb = "create"
        THEN FsReply(0, "", "",
                 IF c.ents[path].exists THEN c
                 ELSE set([exists |-> TRUE,
                           bytes_quota |-> IF has_size /\ StrToNat(pos[3]) > 0
                                           THEN IntVal(StrToNat(pos[3]))
                                           ELSE StrVal("infinite"),
                           bytes_used |-> 0]),
                 NoInfo)
        ELSE IF ~c.ents[path].exists
        THEN enoent("does not exist")
        ELSE IF verb = "info"
        THEN FsReply(0, InfoJson(c.ents[path]), "", c,
                     [found |-> TRUE, bytes_quota |-> c.ents[path].bytes_quota,
                      bytes_used |-> c.ents[path].bytes_used])
        ELSE IF verb = "resize"
        THEN IF pos[3] \in {"inf", "infinite"}
             THEN FsReply(0, "", "",
                      set([c.ents[path] EXCEPT !.bytes_quota = StrVal("infinite")]),
                      NoInfo)
             ELSE IF ~IsDigits(pos[3])
             THEN einval("invalid size option")
             ELSE IF no_shrink /\ StrToNat(pos[3]) < c.ents[path].bytes_used
             THEN einval("new size is less than the used size")
             ELSE FsReply(0, "", "",
                      set([c.ents[path] EXCEPT !.bytes_quota = IntVal(StrToNat(pos[3]))]),
                      NoInfo)
        ELSE IF sub = "subvolumegroup" /\ c.ents[path \o "/sub01"].exists
        THEN FsReply(39, "", "Error ENOTEMPTY: subvolume group is not empty", c, NoInfo)
        ELSE FsReply(0, "", "", set(NoEntity), NoInfo)

\* What the cluster does with a 'cephadm shell ceph fs ...' command and what
\* exec_command gets back.
CephFs(c, command) ==
    LET argv == Argv(command)
        args == SubSeq(argv, 7, Len(argv))
        pos  == SelectSeq(args, LAMBDA a : ~StartsWith(a, "--"))
        no_shrink == \E i \in 1..Len(args) : args[i] = "--no-shrink"
    IN  IF argv[5] = "volume" THEN CephFsVolume(c, argv[6])
        ELSE CephFsEntity(c, argv[5], argv[6], pos, no_shrink)

\* exec_command of the commands from index i on, each after the one before
\* has returned 0; the command of index fail_at is refused by the cluster for
\* a reason of its own.  The reply is the last command's.
RECURSIVE ExecInOrder(_, _, _, _)
ExecInOrder(c, commands, i, fail_at) ==
    LET res == IF i = fail_at
               THEN FsReply(1, "", ExecFailure("ceph").err, c, NoInfo)
               ELSE CephFs(c, commands[i])
        first == [reply |-> res, cmd |-> commands[i],
                  log |-> <<Entry(commands[i], res.rc)>>]
    IN  IF res.rc # 0 \/ i = Len(commands) THEN first
        ELSE LET later == ExecInOrder(res.cluster, commands, i + 1, fail_at)
             IN  [later EXCEPT !.log = first.log \o later.log]


(***************************************************************************)
(* The inputs of ceph_fs_volume                                            *)
(***************************************************************************)

\* Quota sizes in bytes a task asks for and a cluster has.
FsSizes == {1000, 2000}

\* name, type, parent_volume and parent_group of the four kinds of entity.
FsTargets ==
    {[name |-> "vol01", type |-> "volume", parent_volume |-> None, parent_group |-> None],
     [name |-> "gr01", type |-> "subvolume_group", parent_volume |-> "vol01",
      parent_group |-> None],
     [name |-> "sub01", type |-> "subvolume", parent_volume |-> "vol01",
      parent_group |-> None],
     [name |-> "sub01", type |-> "subvolume", parent_volume |-> "vol01",
      parent_group |-> "gr01"]}

FsParam(t, st, sz, fs, fr, cm) ==
    [name |-> t.name, type |-> t.type, parent_volume |-> t.parent_volume,
     parent_group |-> t.parent_group, size |-> sz, force_shrink |-> fs,
     force_remove |-> fr, initial_placement |-> None, state |-> st,
     check_mode |-> cm]

\* Parameter sets that pass the argument_spec's required_if rules.
FsModuleParams ==
    {FsParam(t, "present", sz, fs, FALSE, FALSE) :
        t \in FsTargets, sz \in {NoneVal, IntVal(0)} \cup {IntVal(n) : n \in FsSizes},
        fs \in BOOLEAN}
    \cup {FsParam(t, "absent", NoneVal, FALSE, fr, FALSE) :
            t \in FsTargets, fr \in BOOLEAN}
    \cup {FsParam(t, "present", IntVal(0), FALSE, FALSE, TRUE) : t \in FsTargets}

\* Quota and used bytes of the groups and subvolumes of a cluster.
FsQuotas ==
    {[bytes_quota |-> StrVal("infinite"), bytes_used |-> 0],
     [bytes_quota |-> IntVal(1000), bytes_used |-> 0],
     [bytes_quota |-> IntVal(2000), bytes_used |-> 0],
     [bytes_quota |-> IntVal(2000), bytes_used |-> 1500]}

\* Clusters: no volume, or volume vol01 with some of its group and
\* subvolumes, a subvolume only in a group that exists.
FsClusters ==
    {[volume |-> FALSE, mon_allow_pool_delete |-> a,
      ents |-> [e \in FsEntities |-> NoEntity]] : a \in BOOLEAN}
    \cup
    {[volume |-> TRUE, mon_allow_pool_delete |-> a,
      ents |-> [e \in FsEntities |->
                  IF e \in have
                  THEN [exists |-> TRUE, bytes_quota |-> q.bytes_quota,
                        bytes_used |-> q.bytes_used]
                  ELSE NoEntity]] :
        a \in BOOLEAN, q \in FsQuotas,
        have \in {{}, {"vol01/gr01"}, {"vol01/_nogroup/sub01"},
                  {"vol01/gr01", "vol01/gr01/sub01"},
                  {"vol01/gr01", "vol01/gr01/sub01", "vol01/_nogroup/sub01"}}}


(***************************************************************************)
(* ceph_fs_volume: run_module()                                            *)
(***************************************************************************)

FsInit ==
    /\ params \in FsModuleParams
    /\ fs_cluster \in FsClusters
    /\ volume_info = NoInfo
    /\ cluster_map = <<>>
    /\ pc = "start"
    /\ rc = 0 /\ cmd = <<>> /\ out = "" /\ err = ""
    /\ changed = FALSE
    /\ rule = NoRule
    /\ patched_crushmap = None
    /\ decompile_dir = NoDir
    /\ install_dir = NoDir
    /\ log = <<>>
    /\ result = NoResult
    /\ runs = 1
    /\ ret = FALSE
    /\ rival = NoRival

\* What no action of run_module changes.
fs_frame == <<params, cluster_map, rule, patched_crushmap, decompile_dir,
              install_dir, runs, ret, rival>>

\* if module.check_mode: module.exit_json(changed=False, ..., rc=0, ...)
FsCheckModeExit ==
    /\ pc = "start" /\ params.check_mode
    /\ result' = [NoResult EXCEPT !.exited = TRUE]
    /\ pc' = "done"
    /\ UNCHANGED <<fs_frame, fs_vars, rc, cmd, out, err, changed, log>>

\* rc, cmd, out, err = get_fs_volume(module, name, volume_type, parent_volume,
\* parent_group) (line 411)
GetFsVolume ==
    /\ pc = "start" /\ ~params.check_mode
    /\ LET get_fs == get_fs_volume(params.name, params.type, params.parent_volume,
                                   params.parent_group)
           res == CephFs(fs_cluster, get_fs)
       IN  /\ rc' = res.rc /\ cmd' = get_fs /\ out' = res.out /\ err' = res.err
           /\ volume_info' = res.info
           /\ log' = Append(log, Entry(get_fs, res.rc))
    /\ pc' = "got_volume"
    /\ UNCHANGED <<fs_frame, fs_cluster, changed, result>>

\* state == "present" and rc != 0: create_fs_volume, changed on its rc 0
\* (lines 414-417)
CreateFsVolume ==
    /\ pc = "got_volume" /\ params.state = "present" /\ rc # 0
    /\ LET commands == create_fs_volume(params, params.name, params.type,
                           params.parent_volume, params.parent_group,
                           str_size(params.size))
       IN  \E fail_at \in 0..Len(commands) :
             LET run == ExecInOrder(fs_cluster, commands, 1, fail_at)
             IN  /\ rc' = run.reply.rc /\ cmd' = run.cmd
                 /\ out' = run.reply.out /\ err' = run.reply.err
                 /\ fs_cluster' = run.reply.cluster
                 /\ log' = log \o run.log
                 /\ changed' = (run.reply.rc = 0)
    /\ pc' = "exit"
    /\ UNCHANGED <<fs_frame, volume_info, result>>

\* state == "present", rc == 0 and need_resize(module, out): resize_fs_volume,
\* changed on its rc 0 (lines 418-421)
ResizeFsVolume ==
    /\ pc = "got_volume" /\ params.state = "present" /\ rc = 0
    /\ need_resize(params, volume_info)
    /\ LET resize_fs == resize_fs_volume(params, params.name, params.type,
                            params.parent_volume, params.parent_group,
                            str_size(params.size))
           res == CephFs(fs_cluster, resize_fs)
       IN  /\ rc' = res.rc /\ cmd' = resize_fs /\ out' = res.out /\ err' = res.err
           /\ fs_cluster' = res.cluster
           /\ log' = Append(log, Entry(resize_fs, res.rc))
           /\ changed' = (res.rc = 0)
    /\ pc' = "exit"
    /\ UNCHANGED <<fs_frame, volume_info, result>>

\* state == "present", rc == 0 and need_resize is false: nothing to do.
FsNoResize ==
    /\ pc = "got_volume" /\ params.state = "present" /\ rc = 0
    /\ ~need_resize(params, volume_info)
    /\ pc' = "exit"
    /\ UNCHANGED <<fs_frame, fs_vars, rc, cmd, out, err, changed, log, result>>

\* RemoveFsVolume with a slip: a flag that cannot be read counts as removal
\* allowed (removal_allowed starts True instead of False).
RemoveFsVolumeUnreadableAllowed ==
    /\ pc = "got_volume" /\ params.state = "absent" /\ rc = 0
    /\ \E flag_read \in BOOLEAN, rm_refused \in BOOLEAN :
         LET removal_allowed == ~flag_read \/ fs_cluster.mon_allow_pool_delete
             remove_volume == remove_fs_volume(params.name, params.type,
                                  params.parent_volume, params.parent_group)
             got == <<Entry(get_remove_allowed_flag, IF flag_read THEN 0 ELSE 1)>>
         IN  IF params.type = "volume" /\ ~removal_allowed /\ ~params.force_remove
             THEN /\ rc' = 1 /\ cmd' = remove_volume /\ out' = "" /\ err' = EPERM
                  /\ log' = log \o got
                  /\ changed' = FALSE
                  /\ UNCHANGED fs_cluster
             ELSE LET forced == params.type = "volume" /\ ~removal_allowed
                      c1  == IF forced
                             THEN [fs_cluster EXCEPT !.mon_allow_pool_delete = TRUE]
                             ELSE fs_cluster
                      res == IF rm_refused
                             THEN FsReply(1, "", ExecFailure("ceph").err, c1, NoInfo)
                             ELSE CephFs(c1, remove_volume)
                      c2  == IF params.type = "volume"
                             THEN [res.cluster EXCEPT
                                     !.mon_allow_pool_delete = removal_allowed]
                             ELSE res.cluster
                  IN  /\ rc' = res.rc /\ cmd' = remove_volume
                      /\ out' = res.out /\ err' = res.err
                      /\ fs_cluster' = c2
                      /\ log' = log \o got
                           \o (IF forced
                               THEN <<Entry(set_remove_allowed_flag(TRUE), 0)>>
                               ELSE <<>>)
                           \o <<Entry(remove_volume, res.rc)>>
                           \o (IF params.type = "volume"
                               THEN <<Entry(set_remove_allowed_flag(removal_allowed), 0)>>
                               ELSE <<>>)
                      /\ changed' = (res.rc = 0)
    /\ pc' = "exit"
    /\ UNCHANGED <<fs_frame, volume_info, result>>

\* state == "absent" and rc == 0: remove_fs_volume, changed on its rc 0
\* (lines 422-425).  The flag is read (or the read fails), a volume is not
\* removed while removal is not allowed and not forced, the flag is raised
\* when forced, the rm command runs, and for a volume the flag is set to the
\* value that was read.
RemoveFsVolume ==
    /\ pc = "got_volume" /\ params.state = "absent" /\ rc = 0
    /\ \E flag_read \in BOOLEAN, rm_refused \in BOOLEAN :
         LET removal_allowed == flag_read /\ fs_cluster.mon_allow_pool_delete
             remove_volume == remove_fs_volume(params.name, params.type,
                                  params.parent_volume, params.parent_group)
             got == <<Entry(get_remove_allowed_flag, IF flag_read THEN 0 ELSE 1)>>
         IN  IF params.type = "volume" /\ ~removal_allowed /\ ~params.force_remove
             THEN /\ rc' = 1 /\ cmd' = remove_volume /\ out' = "" /\ err' = EPERM
                  /\ log' = log \o got
                  /\ changed' = FALSE
                  /\ UNCHANGED fs_cluster
             ELSE LET forced == params.type = "volume" /\ ~removal_allowed
                      c1  == IF forced
                             THEN [fs_cluster EXCEPT !.mon_allow_pool_delete = TRUE]
                             ELSE fs_cluster
                      res == IF rm_refused
                             THEN FsReply(1, "", ExecFailure("ceph").err, c1, NoInfo)
                             ELSE CephFs(c1, remove_volume)
                      c2  == IF params.type = "volume"
                             THEN [res.cluster EXCEPT
                                     !.mon_allow_pool_delete = removal_allowed]
                             ELSE res.cluster
                  IN  /\ rc' = res.rc /\ cmd' = remove_volume
                      /\ out' = res.out /\ err' = res.err
                      /\ fs_cluster' = c2
                      /\ log' = log \o got
                           \o (IF forced
                               THEN <<Entry(set_remove_allowed_flag(TRUE), 0)>>
                               ELSE <<>>)
                           \o <<Entry(remove_volume, res.rc)>>
                           \o (IF params.type = "volume"
                               THEN <<Entry(set_remove_allowed_flag(removal_allowed), 0)>>
                               ELSE <<>>)
                      /\ changed' = (res.rc = 0)
    /\ pc' = "exit"
    /\ UNCHANGED <<fs_frame, volume_info, result>>

\* state == "absent" and rc != 0: nothing to remove, the lookup's rc, out
\* and err go to exit_module.
FsAbsentNoVolume ==
    /\ pc = "got_volume" /\ params.state = "absent" /\ rc # 0
    /\ pc' = "exit"
    /\ UNCHANGED <<fs_frame, fs_vars, rc, cmd, out, err, changed, log, result>>

\* exit_module(module=module, out=out, rc=rc, cmd=cmd, err=err, ...,
\* changed=changed) (line 427)
FsExitModule ==
    /\ pc = "exit"
    /\ result' = exit_module(out, rc, cmd, err, changed)
    /\ pc' = "done"
    /\ UNCHANGED <<fs_frame, fs_vars, rc, cmd, out, err, changed, log>>

FsNext ==
    \/ FsCheckModeExit
    \/ GetFsVolume
    \/ CreateFsVolume
    \/ ResizeFsVolume
    \/ FsNoResize
    \/ RemoveFsVolume
    \/ FsAbsentNoVolume
    \/ FsExitModule

SpecFsVolume == FsInit /\ [][FsNext]_vars

(***************************************************************************)
(* ceph_fs_volume_common: list_fs_volumes and get_fs_volume called on      *)
(* their own, with an executor that replies anything                       *)
(***************************************************************************)

\* list_fs_volumes with a slip: the subvolume branch leaves parent_group out.
list_fs_volumesNoGroup(volume_type, parent_volume, parent_group) ==
    build_base_cmd_shell \o <<"ceph", "fs">>
      \o (IF volume_type = "volume"
          THEN <<"volume", "ls", "--format=json">>
          ELSE IF volume_type = "subvolume_group"
          THEN <<"subvolumegroup", "ls", parent_volume, "--format=json">>
          ELSE IF volume_type = "subvolume"
          THEN <<"subvolume", "ls", parent_volume, "--format=json">>
          ELSE <<>>)

\* list_fs_volumes(module, volume_type, parent_volume, parent_group): the
\* command it executes (lines 32-40)
list_fs_volumes(volume_type, parent_volume, parent_group) ==
    build_base_cmd_shell \o <<"ceph", "fs">>
      \o (IF volume_type = "volume"
          THEN <<"volume", "ls", "--format=json">>
          ELSE IF volume_type = "subvolume_group"
          THEN <<"subvolumegroup", "ls", parent_volume, "--format=json">>
          ELSE IF volume_type = "subvolume"
          THEN <<"subvolume", "ls", parent_volume, parent_group, "--format=json">>
          ELSE <<>>)

\* exec_command(module, cmd): runs cmd and returns rc, cmd, out, err, the
\* reply of the process with the command list it was given.
exec_command(c, reply) ==
    [rc |-> reply.rc, cmd |-> c, out |-> reply.out, err |-> reply.err]

\* What the executor keeps of one run: the command list and its reply.
Executed(c, reply) ==
    [cmd |-> c, rc |-> reply.rc, out |-> reply.out, err |-> reply.err]

\* Replies of the executor: exit codes, stdout and stderr of any kind.
QueryReplies ==
    {[rc |-> r, out |-> o, err |-> e] :
        r \in {0, 1, 2, 22},
        o \in {"", "[{\"name\":\"vol01\"}]"},
        e \in {"", "Error ENOENT: filesystem 'vol01' not found"}}

\* Arguments of the helpers; parents may be missing (their default is None).
QueryArgs ==
    {[name |-> n, type |-> t, parent_volume |-> pv, parent_group |-> pg] :
        n \in {"vol01", "gr01", "sub01"},
        t \in {"volume", "subvolume_group", "subvolume"},
        pv \in {None, "vol01"}, pg \in {None, "gr01"}}

QueryInit ==
    /\ params \in QueryArgs
    /\ cluster_map = <<>>
    /\ pc = "call"
    /\ rc = 0 /\ cmd = <<>> /\ out = "" /\ err = ""
    /\ changed = FALSE
    /\ rule = NoRule
    /\ patched_crushmap = None
    /\ decompile_dir = NoDir
    /\ install_dir = NoDir
    /\ log = <<>>
    /\ result = NoResult
    /\ runs = 1
    /\ ret = FALSE
    /\ rival = NoRival
    /\ fs_cluster = NoFs /\ volume_info = NoInfo

\* rc, cmd, out, err = list_fs_volumes(module, volume_type, parent_volume,
\* parent_group): return exec_command(module, list_fs) (line 42)
ListFsVolumesCall ==
    /\ pc = "call"
    /\ \E reply \in QueryReplies :
         LET list_fs == list_fs_volumes(params.type, params.parent_volume,
                                        params.parent_group)
             res == exec_command(list_fs, reply)
         IN  /\ rc' = res.rc /\ cmd' = res.cmd /\ out' = res.out /\ err' = res.err
             /\ log' = Append(log, Executed(list_fs, reply))
    /\ pc' = "listed"
    /\ UNCHANGED <<fs_frame, fs_vars, changed, result>>

\* rc, cmd, out, err = get_fs_volume(module, name, volume_type, parent_volume,
\* parent_group): return exec_command(module, get_fs) (line 73)
GetFsVolumeCall ==
    /\ pc = "call"
    /\ \E reply \in QueryReplies :
         LET get_fs == get_fs_volume(params.name, params.type, params.parent_volume,
                                     params.parent_group)
             res == exec_command(get_fs, reply)
         IN  /\ rc' = res.rc /\ cmd' = res.cmd /\ out' = res.out /\ err' = res.err
             /\ log' = Append(log, Executed(get_fs, reply))
    /\ pc' = "got"
    /\ UNCHANGED <<fs_frame, fs_vars, changed, result>>

QueryNext ==
    \/ ListFsVolumesCall
    \/ GetFsVolumeCall

SpecFsQuery == QueryInit /\ [][QueryNext]_vars


(***************************************************************************)
(* Properties                                                              *)
(***************************************************************************)

\* The part of a take step's item_name before its '~' ...
RootPart(item) ==
    LET i == Find(item, "~", 1) IN IF i = 0 THEN item ELSE SubSeq(item, 1, i - 1)

\* ... and the part after it, None when the name has no '~'.
ClassPart(item) ==
    LET i == Find(item, "~", 1) IN IF i = 0 THEN None ELSE Drop(item, i)

\* A step that diverges from the requested root, class or failure domain.
Diverges(st, p) ==
    \/ st.op = "take" /\ (RootPart(st.item_name) # p.bucket_root
                            \/ ClassPart(st.item_name) # p.device_class)
    \/ st.op = "chooseleaf_firstn" /\ st.type # p.bucket_type

\* A log entry of a command that changes the cluster or starts the
\* reconcile path.
Mutating(e) ==
    \E i \in 1..Len(e.cmd) :
        e.cmd[i] \in {"getcrushmap", "crushtool", "setcrushmap",
                      "create-replicated", "create-erasure", "rm"}

\* C1 (Idempotence): a run with state=present that found an existing
\* replicated rule whose every take step has the requested root and class
\* (no class suffix for an unset device_class) and whose every
\* chooseleaf_firstn step has the requested type has issued no getcrushmap,
\* crushtool, setcrushmap, create or rm command, never sets changed, and ends
\* with changed=false and rc=0; a run in check mode issues nothing either.
C1_Idempotence ==
    (/\ params.state = "present"
     /\ \/ params.check_mode
        \/ /\ rule # NoRule
           /\ rule.type = 1
           /\ \A i \in 1..Len(rule.steps) : ~Diverges(rule.steps[i], params))
    => /\ \A i \in 1..Len(log) : ~Mutating(log[i])
       /\ ~changed
       /\ pc \notin {"decompile", "patch", "compile", "install"}
       /\ pc = "done" => result.exited /\ ~result.changed /\ result.rc = 0

\* C1, witness: a finished run that found rule foo replicated, with a take
\* step carrying a class and a chooseleaf_firstn step, all as requested.
C1_Witness ==
    /\ pc = "done" /\ params.state = "present" /\ ~params.check_mode
    /\ params.rule_type = "replicated" /\ params.device_class = "ssd"
    /\ rule # NoRule /\ rule.type = 1
    /\ \A i \in 1..Len(rule.steps) : ~Diverges(rule.steps[i], params)
    /\ \E i \in 1..Len(rule.steps) : rule.steps[i].op = "take"
    /\ \E i \in 1..Len(rule.steps) : rule.steps[i].op = "chooseleaf_firstn"
    /\ result.exited /\ ~result.changed

\* The lines of the text given to patch_content and of the text it returned.
InLines == splitlines(out)
OutLines == splitlines(patched_crushmap)

\* patch_content has returned.
Patched == pc = "compile"

\* The line 'rule <name> {' of the rule to patch, 0 when the map has none.
TargetStart == RuleIndex(InLines, params.name)

\* Line i lies strictly inside the block of the rule to patch.
InTarget(i) ==
    /\ TargetStart # 0
    /\ i > TargetStart
    /\ i < BlockEnd(InLines, TargetStart)

\* The name of the rule whose block line i lies strictly inside, None if it
\* lies in no rule's block.
OwnerOf(lines, i) ==
    LET S == {j \in 1..(i - 1) :
                 /\ Len(Words(lines[j])) = 3
                 /\ Words(lines[j])[1] = "rule" /\ Words(lines[j])[3] = "{"
                 /\ \A k \in (j + 1)..i : ~StartsWith(lines[k], "}")}
    IN  IF S = {} THEN None ELSE Words(lines[CHOOSE j \in S : TRUE])[2]

\* No line before the target rule's own header starts with 'rule <name>':
\* the first block the scan enters is the target's.
TargetEnteredFirst ==
    /\ TargetStart # 0
    /\ \A j \in 1..(TargetStart - 1) : ~StartsWith(InLines[j], "rule " \o params.name)

\* C2 (Block isolation), as claimed: patch_content keeps the number of lines
\* and leaves every line that is not strictly inside the target rule's
\* block identical to the input.
C2_BlockIsolation ==
    Patched =>
        /\ Len(OutLines) = Len(InLines)
        /\ \A i \in 1..Len(InLines) : ~InTarget(i) => OutLines[i] = InLines[i]

\* C3 (Exact rule-name match), as claimed: no line inside the block of a
\* rule whose name is not exactly params.name is modified.
C3_ExactNameMatch ==
    Patched =>
        \A i \in 1..Len(InLines) :
            (OwnerOf(InLines, i) # None /\ OwnerOf(InLines, i) # params.name)
                => OutLines[i] = InLines[i]

\* The leading whitespace of a line.
Indent(line) == SubSeq(line, 1, LeadingSpaces(line))

\* The line is <indent>step take <R> class <C>.
IsTakeWithClass(line) ==
    LET w == Words(line)
    IN  /\ Len(w) = 5
        /\ line = Indent(line) \o "step take " \o w[3] \o " class " \o w[5]

\* The line is <indent>step take <R>.
IsTakeNoClass(line) ==
    LET w == Words(line)
    IN  Len(w) = 3 /\ line = Indent(line) \o "step take " \o w[3]

\* The line is <indent>step chooseleaf firstn 0 type <T>.
IsChooseleaf0(line) ==
    LET w == Words(line)
    IN  Len(w) = 6 /\ line = Indent(line) \o "step chooseleaf firstn 0 type " \o w[6]

\* C4 (Root rewrite), as claimed, for a map whose first block entered is the
\* target's: a target-block line 'step take R class C' becomes exactly
\* 'step take R2 class C2' for the requested root R2 and class C2, and
\* 'step take R' with no class requested becomes exactly 'step take R2',
\* the indentation kept.
C4_RootRewrite ==
    (Patched /\ TargetEnteredFirst) =>
        \A i \in 1..Len(InLines) : InTarget(i) =>
            /\ (IsTakeWithClass(InLines[i]) /\ Truthy(params.device_class))
                 => OutLines[i] = Indent(InLines[i]) \o "step take " \o params.bucket_root
                                    \o " class " \o params.device_class
            /\ (IsTakeNoClass(InLines[i]) /\ params.device_class = None)
                 => OutLines[i] = Indent(InLines[i]) \o "step take " \o params.bucket_root

\* C5 (Class removal), as claimed, for a map whose first block entered is
\* the target's: with device_class unset a target-block line
\* 'step take R class C' becomes exactly 'step take <bucket_root>'.
C5_ClassRemoval ==
    (Patched /\ TargetEnteredFirst /\ params.device_class = None) =>
        \A i \in 1..Len(InLines) : (InTarget(i) /\ IsTakeWithClass(InLines[i]))
            => OutLines[i] = Indent(InLines[i]) \o "step take " \o params.bucket_root

\* C6 (Class addition), as claimed, for a map whose first block entered is
\* the target's: with a non-empty device_class D a target-block line
\* 'step take R' becomes exactly 'step take <bucket_root> class D'.
C6_ClassAddition ==
    (Patched /\ TargetEnteredFirst /\ Truthy(params.device_class)) =>
        \A i \in 1..Len(InLines) : (InTarget(i) /\ IsTakeNoClass(InLines[i]))
            => OutLines[i] = Indent(InLines[i]) \o "step take " \o params.bucket_root
                               \o " class " \o params.device_class

\* C7 (Failure-domain rewrite), as claimed, for a map whose first block
\* entered is the target's: a target-block line
\* 'step chooseleaf firstn 0 type T' becomes exactly
\* 'step chooseleaf firstn 0 type <bucket_type>', the indentation kept.
C7_FailureDomainRewrite ==
    (Patched /\ TargetEnteredFirst) =>
        \A i \in 1..Len(InLines) : (InTarget(i) /\ IsChooseleaf0(InLines[i]))
            => OutLines[i] = Indent(InLines[i]) \o "step chooseleaf firstn 0 type "
                               \o params.bucket_type

\* C8 (Inspector): need_changes returns true exactly when some take step has
\* a root part other than bucket_root or a class part (None without '~')
\* other than device_class, or some chooseleaf_firstn step has a type other
\* than bucket_type; steps with another op do not count, and a rule with no
\* take and no chooseleaf_firstn step gives false.
C8_Inspector ==
    pc = "returned" =>
        ret = (\E i \in 1..Len(rule.steps) : Diverges(rule.steps[i], params))

\* C8, witness: need_changes returned true for a rule whose first step is a
\* take step as requested, followed by a step of another op and then by a
\* chooseleaf_firstn step of another type.
C8_Witness ==
    /\ pc = "returned" /\ ret
    /\ Len(rule.steps) = 3
    /\ rule.steps[1].op = "take" /\ ~Diverges(rule.steps[1], params)
    /\ rule.steps[2].op \notin {"take", "chooseleaf_firstn"}
    /\ rule.steps[3].op = "chooseleaf_firstn" /\ Diverges(rule.steps[3], params)

\* C9 (Absent-class sentinels), as claimed: with device_class unset or the
\* empty string, need_changes returns false for a rule whose take steps have
\* the requested root and no class suffix and whose chooseleaf_firstn steps
\* have the requested type.
C9_AbsentClassSentinels ==
    (/\ pc = "returned"
     /\ params.device_class \in {None, ""}
     /\ \A i \in 1..Len(rule.steps) :
          LET st == rule.steps[i]
          IN  /\ st.op = "take" => st.item_name = params.bucket_root
              /\ st.op = "chooseleaf_firstn" => st.type = params.bucket_type)
    => ret = FALSE

\* The step of the reconcile path a log entry stands for.
StepKind(e) ==
    LET has(w) == \E i \in 1..Len(e.cmd) : e.cmd[i] = w
    IN  IF has("getcrushmap") THEN "dump"
        ELSE IF has("crushtool") /\ has("-d") THEN "decompile"
        ELSE IF e.cmd = PatchStep THEN "patch"
        ELSE IF e.cmd[1] = "write" THEN "write"
        ELSE IF has("crushtool") /\ has("-c") THEN "compile"
        ELSE IF has("setcrushmap") THEN "install"
        ELSE "other"

ReconcileOrder == <<"dump", "decompile", "patch", "write", "compile", "install">>

\* The steps of the reconcile path this run has taken, in order.
ReconcileLog == SelectSeq(log, LAMBDA e : StepKind(e) # "other")

\* C10 (Fail-fast sequencing): the reconcile steps a run has taken are a
\* prefix of dump, decompile, patch, write, compile, install, each taken at
\* most once, and every step but the last one taken returned exit code 0:
\* after a failed dump no decompile, after a failed decompile no compile and
\* no install.
C10_FailFast ==
    /\ Len(ReconcileLog) <= Len(ReconcileOrder)
    /\ \A i \in 1..Len(ReconcileLog) :
         /\ StepKind(ReconcileLog[i]) = ReconcileOrder[i]
         /\ i < Len(ReconcileLog) => ReconcileLog[i].rc = 0

\* C10, witness: a finished run whose decompile step returned nonzero after
\* a successful dump.
C10_Witness ==
    /\ pc = "done"
    /\ Len(ReconcileLog) = 2
    /\ ReconcileLog[1].rc = 0
    /\ StepKind(ReconcileLog[2]) = "decompile" /\ ReconcileLog[2].rc # 0

\* The run has fetched an existing rule whose type is not the requested one.
TypeMismatch ==
    /\ rule # NoRule
    /\ params.rule_type # RULE_TYPES(rule.type)

\* C11 (Type-change rejection): a run that found the existing rule's type
\* different from the requested rule_type goes nowhere but to a fatal error:
\* it ends failed with changed=false, it never sets changed, and it has
\* issued no create, rm, getcrushmap, crushtool or setcrushmap command.
C11_TypeChangeRejected ==
    TypeMismatch
    => /\ pc \in {"got_rule", "done"}
       /\ ~changed
       /\ \A i \in 1..Len(log) : ~Mutating(log[i])
       /\ pc = "done" => /\ result.exited /\ result.failed
                         /\ ~result.changed /\ result.rc # 0

\* C11, witness: a finished run that asked for an erasure rule and found
\* rule foo replicated.
C11_Witness ==
    /\ pc = "done" /\ TypeMismatch
    /\ params.rule_type = "erasure" /\ rule.type = 1
    /\ result.failed /\ Len(log) = 1


\* The reconcile step of the given kind was taken in this run and returned 0.
StepReturnedZero(kind) ==
    \E i \in 1..Len(ReconcileLog) :
        StepKind(ReconcileLog[i]) = kind /\ ReconcileLog[i].rc = 0

\* C12 (Outcome trichotomy): a finished run with state=present on an
\* existing replicated rule reports exactly one of: no change (changed=false,
\* rc=0, no reconcile step taken), changed (changed=true, rc=0, and dump,
\* decompile, compile and install all returned 0), or a step failure (rc # 0,
\* changed=false).
C12_OutcomeTrichotomy ==
    (/\ pc = "done" /\ result.exited /\ ~result.failed
     /\ params.state = "present" /\ params.rule_type = "replicated"
     /\ rule # NoRule /\ rule.type = 1)
    => /\ result.changed
          => /\ result.rc = 0
             /\ \A k \in {"dump", "decompile", "compile", "install"} :
                  StepReturnedZero(k)
       /\ (~result.changed /\ result.rc = 0) => ReconcileLog = <<>>


\* The last reconcile step this run has taken.
LastStep == ReconcileLog[Len(ReconcileLog)]

\* The tool a reconcile step runs and the word its failure message opens with.
StageTool(kind) ==
    IF kind = "dump" THEN "getcrushmap"
    ELSE IF kind = "install" THEN "setcrushmap" ELSE "crushtool"
StageWord(kind) ==
    IF kind = "dump" THEN "dump"
    ELSE IF kind = "decompile" THEN "decompile"
    ELSE IF kind = "compile" THEN "compilation" ELSE "installation"

\* C13 (Failure reporting): a finished run whose last reconcile step (dump,
\* decompile, compile or install) returned nonzero reports that step's exit
\* code, that step's command line, that step's stderr and a message that
\* opens with the name of the failed stage; and the command line and the
\* output any finished reconcile reports are those of the last step it
\* executed.
C13_FailureReporting ==
    (pc = "done" /\ result.exited /\ ReconcileLog # <<>>)
    => /\ result.cmd = LastStep.cmd
       /\ result.rc = LastStep.rc
       /\ LastStep.rc = 0
          => result.out = ExecSuccess.out /\ result.err = ExecSuccess.err
       /\ LastStep.rc # 0
          => LET kind == StepKind(LastStep)
                 res == ExecFailure(StageTool(kind))
             IN  /\ kind \in {"dump", "decompile", "compile", "install"}
                 /\ result.rc = res.rc
                 /\ result.err = res.err
                 /\ result.out = StageWord(kind)
                      \o " of the CRUSH map failed with output: " \o res.out

\* C13, witness: a finished run whose compile step returned nonzero and
\* whose outcome carries the command line of 'crushtool -c'.
C13_Witness ==
    /\ pc = "done" /\ result.exited
    /\ ReconcileLog # <<>>
    /\ StepKind(LastStep) = "compile" /\ LastStep.rc # 0
    /\ result.cmd = compile_map(InstallTmp)
    /\ result.err = "crushtool: error"


\* C14 (Temp-directory cleanup): whenever a run is outside
\* decompile_crushmap, its directory does not exist, and whenever it is outside
\* install_crushmap, neither does that one's: after success, after the early
\* return of a failed dump, decompile, compile or install, after an exception,
\* at the end of the run and at the start of the next one.
C14_TempDirCleanup ==
    /\ pc # "decompile" => decompile_dir = NoDir
    /\ pc # "install" => install_dir = NoDir

\* C14, witness: a finished first run in which both directories were made
\* and 'ceph osd setcrushmap' returned nonzero.
C14_Witness ==
    /\ pc = "done" /\ result.exited /\ runs = 1
    /\ ReconcileLog # <<>>
    /\ StepKind(LastStep) = "install" /\ LastStep.rc # 0
    /\ decompile_dir = NoDir /\ install_dir = NoDir


\* No line of the input starts with 'rule <name>': the scan of
\* patch_content enters no block.
NoBlockEntered ==
    \A i \in 1..Len(InLines) : ~StartsWith(InLines[i], "rule " \o params.name)

\* C15 (Rule not found), as claimed: when no line of the map text starts the
\* block of the rule to patch, patch_content returns a text equal to its
\* input, character for character, whether or not the input ends with a
\* newline.
C15_RuleNotFound ==
    (Patched /\ NoBlockEntered) => patched_crushmap = out


\* The line has one of the two shapes patch_content is to edit.
IsEditableStep(line) ==
    IsTakeWithClass(line) \/ IsTakeNoClass(line) \/ IsChooseleaf0(line)

\* C16 (Only the two step shapes are edited): patch_content keeps the number
\* of lines, and a line strictly inside the target rule's block that differs
\* in the output is a 'step take <root> [class <class>]' or a
\* 'step chooseleaf firstn 0 type <domain>' line; the id, type, comment,
\* 'step emit' and 'step chooseleaf firstn 2' lines of the block are identical
\* in the output.
C16_OnlyStepShapes ==
    Patched =>
        LET input  == InLines
            output == OutLines
            first  == RuleIndex(input, params.name)
            inside == IF first = 0 THEN {}
                      ELSE {i \in 1..Len(input) :
                               i > first /\ i < BlockEnd(input, first)}
        IN  /\ Len(output) = Len(input)
            /\ \A i \in inside :
                 ~IsEditableStep(input[i]) => output[i] = input[i]

\* C16, witness: the target block was entered and its take line rewritten,
\* while it has a 'step chooseleaf firstn 2 type host' line, with another
\* failure domain requested, and a comment naming a class that is not
\* requested.
C16_Witness ==
    /\ Patched /\ TargetEnteredFirst
    /\ params.bucket_type = "rack" /\ params.device_class = None
    /\ \E i \in 1..Len(InLines) :
         InTarget(i) /\ IsEditableStep(InLines[i]) /\ OutLines[i] # InLines[i]
    /\ \E i \in 1..Len(InLines) :
         InTarget(i) /\ InLines[i] = "\tstep chooseleaf firstn 2 type host"
    /\ \E i \in 1..Len(InLines) :
         InTarget(i) /\ InLines[i] = "\t# step take default class ssd"


\* C17 (Erasure rules are never patched): a run that asked for an erasure
\* rule and found the existing rule to be an erasure rule has taken no
\* reconcile step (no getcrushmap, crushtool or setcrushmap, nor any other
\* mutating command), never sets changed, and ends with changed=false and
\* rc=0, whatever profile, bucket_root, bucket_type and device_class it was
\* given.
C17_ErasureNeverPatched ==
    (/\ rule # NoRule /\ RULE_TYPES(rule.type) = "erasure"
     /\ params.rule_type = "erasure")
    => /\ ReconcileLog = <<>>
       /\ \A i \in 1..Len(log) : ~Mutating(log[i])
       /\ ~changed
       /\ pc \in {"got_rule", "exit", "done"}
       /\ pc = "done" => /\ result.exited /\ ~result.failed
                         /\ ~result.changed /\ result.rc = 0

\* C17, witness: a finished run on an existing erasure rule that asked for
\* an erasure rule with another profile, a root, a failure domain and a class
\* that the rule's steps do not have.
C17_Witness ==
    /\ pc = "done" /\ result.exited
    /\ rule # NoRule /\ RULE_TYPES(rule.type) = "erasure"
    /\ params.rule_type = "erasure" /\ params.profile = "otherprofile"
    /\ params.bucket_root = "hdd" /\ params.device_class = "ssd"
    /\ need_changes(params, rule)


\* A command of the log that resizes a subvolume group or a subvolume.
IsResize(command) ==
    /\ Len(command) >= 9
    /\ command[5] \in {"subvolumegroup", "subvolume"} /\ command[6] = "resize"

\* The resize commands this run has issued.
ResizeLog == SelectSeq(log, LAMBDA e : IsResize(e.cmd))


\* The run of ceph_fs_volume found the entity it is to manage.
FsFound == volume_info.found

\* The size argument of a resize command: the element after the entity's name.
SizeArgument(command) == command[9]

\* C18 (Unset quota), as claimed: a finished run with state=present and
\* size=0 that found the subvolume or subvolume group with a finite
\* bytes_quota has issued a resize command whose size argument is 'infinite'.
C18_UnsetQuota ==
    (/\ pc = "done" /\ result.exited /\ ~params.check_mode
     /\ params.state = "present" /\ params.size = IntVal(0)
     /\ params.type # "volume"
     /\ FsFound /\ volume_info.bytes_quota.kind = "int")
    => \E i \in 1..Len(ResizeLog) : SizeArgument(ResizeLog[i].cmd) = "infinite"

\* The text of the quota a task asks for: the decimal size, 'infinite' for 0.
RequestedQuota(size) == IF size.int > 0 THEN IntToStr(size.int) ELSE "infinite"

\* The text of the quota the entity has.
CurrentQuota(info) ==
    IF info.bytes_quota.kind = "int" THEN IntToStr(info.bytes_quota.int)
    ELSE info.bytes_quota.str

\* C19 (Resize decision): a run with state=present that found its entity and
\* has passed the decision has issued a resize command if and only if type is
\* not volume, size is defined and the current bytes_quota as text differs
\* from the requested quota; it issues at most one; and without a resize
\* command changed stays false up to the outcome.
C19_ResizeDecision ==
    (/\ pc \in {"exit", "done"} /\ ~params.check_mode
     /\ params.state = "present" /\ FsFound)
    => /\ ResizeLog # <<>>
          <=> /\ params.type # "volume"
              /\ params.size.kind = "int"
              /\ CurrentQuota(volume_info) # RequestedQuota(params.size)
       /\ Len(ResizeLog) <= 1
       /\ ResizeLog = <<>>
          => /\ ~changed /\ Len(log) = 1
             /\ pc = "done" => result.exited /\ ~result.changed

\* C19, witness: a finished run that found a subvolume with quota 1000, was
\* asked for 2000, resized and reports changed.
C19_Witness ==
    /\ pc = "done" /\ params.state = "present" /\ FsFound
    /\ params.type = "subvolume" /\ params.size = IntVal(2000)
    /\ volume_info.bytes_quota = IntVal(1000)
    /\ Len(ResizeLog) = 1 /\ ResizeLog[1].rc = 0
    /\ result.changed

\* C20 (No shrink without force): every resize command issued, for a
\* subvolume group or a subvolume, has the element '--no-shrink' if and only
\* if force_shrink is false.
C20_NoShrinkWithoutForce ==
    \A i \in 1..Len(ResizeLog) :
        (\E k \in 1..Len(ResizeLog[i].cmd) : ResizeLog[i].cmd[k] = "--no-shrink")
        <=> ~params.force_shrink

\* C20, witness: a subvolume in a group with 1500 bytes used was resized
\* to 1000 with force_shrink, and the cluster took it.
C20_Witness ==
    /\ pc = "done" /\ params.type = "subvolume" /\ params.parent_group = "gr01"
    /\ params.force_shrink /\ params.size = IntVal(1000)
    /\ volume_info.bytes_used = 1500
    /\ Len(ResizeLog) = 1 /\ ResizeLog[1].rc = 0
    /\ fs_cluster.ents["vol01/gr01/sub01"].bytes_quota = IntVal(1000)


-----------------------------------------------------------------------------
\* The kind of entity a create command of the log is for ("" for any other
\* command): the word after "ceph fs" of a command whose verb is "create".
CreateKind(command) ==
    IF Len(command) >= 6 /\ command[6] = "create" THEN command[5] ELSE ""

CreateLog == SelectSeq(log, LAMBDA e : CreateKind(e.cmd) # "")

\* The kinds of the create commands a complete creation of the requested
\* entity consists of, parents first.
CreateOrder(p) ==
    IF p.type = "volume" THEN <<"volume">>
    ELSE IF p.type = "subvolume_group" THEN <<"volume", "subvolumegroup">>
    ELSE IF p.parent_group # None THEN <<"volume", "subvolumegroup", "subvolume">>
    ELSE <<"volume", "subvolume">>

\* C21 (Parent creation order): a run that creates a missing entity issues the
\* create commands parents first (volume, then subvolume group if there is
\* one, then the entity), each for the named parent; every command but the
\* last one issued returned 0, so nothing follows a failing command; the
\* module's rc, command line, stdout and stderr are those of the last command
\* issued, and changed is true only if the whole plan ran and its last command
\* returned 0.
C21_ParentCreationOrder ==
    (pc \in {"exit", "done"} /\ params.state = "present" /\ ~FsFound
     /\ ~params.check_mode)
    => LET order == CreateOrder(params)
           created == CreateLog
           n == Len(created)
       IN  /\ n >= 1 /\ n <= Len(order)
           /\ \A i \in 1..n :
                /\ CreateKind(created[i].cmd) = order[i]
                /\ i < n => created[i].rc = 0
                /\ created[i].cmd[7] = "vol01"
                /\ order[i] = "subvolumegroup" => created[i].cmd[8] = "gr01"
                /\ order[i] = "subvolume" => created[i].cmd[8] = "sub01"
           /\ rc = created[n].rc /\ cmd = created[n].cmd
           /\ changed <=> (n = Len(order) /\ created[n].rc = 0)
           /\ created[n].rc # 0 => /\ ~changed
                                   /\ out = "" /\ err = ExecFailure("ceph").err
           /\ pc = "done" => /\ result.exited /\ result.rc = rc /\ result.cmd = cmd
                             /\ result.out = out /\ result.err = err
                             /\ result.changed = changed

\* A subvolume with a parent group whose parent volume was created and whose
\* group creation then failed: two create commands, the module reports the
\* group's command and no change.
C21_Witness ==
    /\ pc = "done" /\ params.state = "present" /\ ~FsFound
    /\ params.type = "subvolume" /\ params.parent_group = "gr01"
    /\ Len(CreateLog) = 2
    /\ CreateLog[1].rc = 0 /\ CreateLog[2].rc # 0
    /\ result.cmd[5] = "subvolumegroup" /\ ~result.changed

-----------------------------------------------------------------------------
\* Kinds of logged commands of the removal step.
IsVolumeRm(command) ==
    Len(command) >= 6 /\ command[4] = "fs" /\ command[5] = "volume"
      /\ command[6] = "rm"

IsConfigSet(command) ==
    Len(command) >= 5 /\ command[4] = "config" /\ command[5] = "set"

VolumeRmLog == SelectSeq(log, LAMBDA e : IsVolumeRm(e.cmd))
ConfigSetLog == SelectSeq(log, LAMBDA e : IsConfigSet(e.cmd))
FlagReadLog == SelectSeq(log, LAMBDA e : e.cmd = get_remove_allowed_flag)

\* The step of run_module that calls remove_fs_volume for a volume.
VolumeRemoval ==
    /\ pc = "got_volume" /\ pc' = "exit"
    /\ params.state = "absent" /\ params.type = "volume" /\ rc = 0

\* C22 (Volume removal gate): in the step that removes a volume, when the
\* cluster's mon_allow_pool_delete is false or the flag read returned nonzero,
\* and force_remove is false, the step issues no "fs volume rm" and no
\* "config set" command and ends with rc 1, the EPERM message and changed
\* false; and a "fs volume rm" command is issued only when the flag was true
\* or force_remove is true.
C22_VolumeRemovalGate ==
    [][VolumeRemoval =>
         LET flag == fs_cluster.mon_allow_pool_delete
             unreadable == FlagReadLog'[Len(FlagReadLog')].rc # 0
         IN  /\ Len(FlagReadLog') = 1
             /\ ((~flag \/ unreadable) /\ ~params.force_remove)
                  => /\ VolumeRmLog' = <<>> /\ ConfigSetLog' = <<>>
                     /\ rc' = 1 /\ err' = EPERM /\ out' = "" /\ ~changed'
                     /\ fs_cluster' = fs_cluster
             /\ VolumeRmLog' # <<>> => (flag \/ params.force_remove)
             /\ ((flag /\ ~unreadable) \/ params.force_remove)
                  => Len(VolumeRmLog') = 1
      ]_vars

\* A finished run that was asked to remove an existing volume without
\* force_remove on a cluster whose flag is false: the flag was read, nothing
\* else was issued, the result is rc 1 with the EPERM message.
C22_Witness ==
    /\ pc = "done" /\ params.state = "absent" /\ params.type = "volume"
    /\ ~params.force_remove /\ FsFound
    /\ ~fs_cluster.mon_allow_pool_delete
    /\ Len(FlagReadLog) = 1 /\ FlagReadLog[1].rc = 0
    /\ VolumeRmLog = <<>> /\ ConfigSetLog = <<>>
    /\ result.rc = 1 /\ result.err = EPERM /\ ~result.changed
    /\ fs_cluster.volume

-----------------------------------------------------------------------------
\* C23 (Flag restoration): the step that calls remove_fs_volume for a volume
\* leaves the cluster's mon_allow_pool_delete at the value it had before the
\* step, on every path.
C23_FlagRestored ==
    [][VolumeRemoval =>
         fs_cluster'.mon_allow_pool_delete = fs_cluster.mon_allow_pool_delete
      ]_vars

-----------------------------------------------------------------------------
\* The words a query command has after "cephadm shell ceph fs" for the
\* entity kind, the verb and the names, as the command forms are written:
\* volume <verb> [<name>], subvolumegroup <verb> <vol> [<name>],
\* subvolume <verb> <vol> [<name>] <group>.
QueryWords(a, verb, named) ==
    LET entity == IF named THEN <<a.name>> ELSE <<>>
    IN  IF a.type = "volume" THEN <<"volume", verb>> \o entity
        ELSE IF a.type = "subvolume_group"
        THEN <<"subvolumegroup", verb, a.parent_volume>> \o entity
        ELSE <<"subvolume", verb, a.parent_volume>> \o entity \o <<a.parent_group>>

\* C24 (Query helpers): a call of list_fs_volumes or get_fs_volume executes
\* exactly one command, which is the base shell prefix, "ceph fs", the ls or
\* info words for the volume type with the names given, and "--format=json"
\* last; it returns the rc, stdout and stderr the executor replied, unchanged,
\* with that command list.
C24_QueryHelpers ==
    pc \in {"listed", "got"}
    => /\ Len(log) = 1
       /\ log[1].cmd = <<"cephadm", "shell", "ceph", "fs">>
                         \o QueryWords(params, IF pc = "listed" THEN "ls" ELSE "info",
                                       pc = "got")
                         \o <<"--format=json">>
       /\ cmd = log[1].cmd
       /\ rc = log[1].rc /\ out = log[1].out /\ err = log[1].err

\* A listing of the subvolumes of a group to which the executor replied a
\* nonzero rc with text on stdout and stderr.
C24_Witness ==
    /\ pc = "listed" /\ params.type = "subvolume"
    /\ params.parent_volume = "vol01" /\ params.parent_group = "gr01"
    /\ cmd = <<"cephadm", "shell", "ceph", "fs", "subvolume", "ls", "vol01", "gr01",
               "--format=json">>
    /\ rc = 22 /\ out # "" /\ err # ""

-----------------------------------------------------------------------------
\* The run has installed the patched map: its last reconcile step is a
\* setcrushmap that returned 0.
Installed ==
    /\ pc \in {"exit", "done"}
    /\ ReconcileLog # <<>>
    /\ StepKind(LastStep) = "install" /\ LastStep.rc = 0

\* C25 (Convergence): after a run whose dump, decompile, compile and install
\* all succeeded, need_changes on the rule of the installed map with the same
\* parameters returns false.
C25_Convergence ==
    Installed => ~need_changes(params, RuleJson(cluster_map, params.name))

-----------------------------------------------------------------------------
\* The other operator installed during this run, after this run's dump of
\* the map and before this run's install.
RivalAfterDump ==
    /\ rival.installed
    /\ rival.at \in {"decompile", "patch", "compile", "install"}

\* The other operator installed during this run before the dump.
RivalBeforeDump ==
    /\ rival.installed
    /\ rival.at \in {"start", "got_rule"}

\* C26 (No mutual exclusion on the cluster map): nothing stops another
\* operator from installing a map between this run's dump and this run's
\* install; when that happens and this run's install succeeds, the installed
\* map is this run's patched copy of the map it dumped and the other
\* operator's rule, present in the map they installed, is absent from it,
\* while a change installed before the dump is kept.
C26_LostUpdate ==
    /\ (Installed /\ pc = "exit" /\ RivalAfterDump)
       => /\ cluster_map = Compile(patched_crushmap)
          /\ RuleIndex(rival.map, "bar") # 0
          /\ RuleIndex(cluster_map, "bar") = 0
    /\ (Installed /\ pc = "exit" /\ RivalBeforeDump)
       => RuleIndex(cluster_map, "bar") # 0
    /\ (RivalAfterDump /\ pc \in {"decompile", "patch", "compile", "install"})
       => /\ cluster_map = rival.map
          /\ RuleIndex(cluster_map, "bar") # 0

\* The lost update: the other operator installed their map while this run
\* was patching its copy, this run's install succeeded, and the installed
\* map lacks the other operator's rule.
C26_Witness ==
    /\ Installed /\ pc = "exit"
    /\ rival.installed /\ rival.at = "patch"
    /\ RuleIndex(rival.map, "bar") # 0
    /\ RuleIndex(cluster_map, "bar") = 0
    /\ cluster_map # rival.map

-----------------------------------------------------------------------------
\* A logged command that removes a CephFS entity.
IsFsRm(command) == Len(command) >= 6 /\ command[4] = "fs" /\ command[6] = "rm"

\* C27 (Absent is a successful no-op on a missing resource), for
\* ceph_fs_volume: a finished run with state=absent whose lookup reported
\* that the entity does not exist has issued no rm command and ends with
\* rc=0 and changed=false.
C27_AbsentNoOp ==
    (pc = "done" /\ params.state = "absent" /\ ~params.check_mode /\ ~FsFound)
    => /\ \A i \in 1..Len(log) : ~IsFsRm(log[i].cmd)
       /\ result.exited /\ ~result.changed
       /\ result.rc = 0

-----------------------------------------------------------------------------
\* C28 (Patch idempotence): the text patch_content returned is a fixed point
\* of patch_content with the same parameters: patching it again gives the
\* same text.
C28_PatchIdempotent ==
    Patched => patch_content(params, patched_crushmap) = patched_crushmap

=============================================================================
